---------------------------- MODULE Spec2Model ----------------------------
(***************************************************************************)
(* FatigueDesigner: the procedural geometry engine.                        *)
(*                                                                         *)
(*   - generateSpecimenProfile   (lib/specimen-generator, src/unnamed/     *)
(*                                part_002)                                *)
(*   - validateSpecimen          (lib/specimen-validator, src/unnamed/     *)
(*                                part_000)                                *)
(*   - calculateLatticeVolumeReduction                                     *)
(*                               (src/21_May_2025/lib/lattice-generators)  *)
(*   - the lattice generators    (src/lib/materials.ts and                 *)
(*                                src/21_May_2025/lib/lattice-generators)  *)
(*                                                                         *)
(* NUMBERS.  The program computes with IEEE doubles.  The model computes   *)
(* with exact fixed-point integers:                                        *)
(*   - a SpecimenParams length is an integer number of hundredths of a     *)
(*     millimetre (gaugeDiameter 6.35 is 635), a taper angle an integer    *)
(*     number of tenths of a degree;                                       *)
(*   - a profile coordinate is an integer number of 1/Scale hundredths,    *)
(*     Scale chosen so that every halving, the factor 1.2, the fractions   *)
(*     i/20 and the cosine table divide exactly;                           *)
(*   - Math.cos and Math.tan are tables rounded to 1/CosScale and          *)
(*     1/CotScale;                                                         *)
(*   - a quotient whose divisor may be zero is kept as numerator and       *)
(*     denominator and compared as IEEE compares it (x/0 is +-Infinity,    *)
(*     0/0 is NaN and every comparison with NaN is false).                 *)
(* Rounding in the last place of a double is outside the model.            *)
(***************************************************************************)
EXTENDS Integers, Sequences, FiniteSets, TLC

VARIABLES
    pc,                \* position of the modelled call: "ready", "done", or the running generator
    params,            \* SpecimenParams handed to the profile generator / validator
    standard,          \* ASTMStandard handed to the validator
    profile,           \* SpecimenProfile returned by generateSpecimenProfile
    validationResult,  \* ValidationResult returned by validateSpecimen
    latticeType,       \* LatticeType handed to the lattice functions
    latticeParams,     \* LatticeParams handed to the lattice functions
    reduction,         \* fraction returned by calculateLatticeVolumeReduction
    cursor,            \* loop position of the running lattice generator
    primitives,        \* primitives added to latticeGroup so far, in order
    previous,          \* primitive lists returned by the preceding calls, same arguments
    gaugeGeometry,     \* holes subtracted from gaugeMesh.geometry so far, in order
    included,          \* Math.random() draws of the running call that fell below the threshold
    combinedMesh,      \* indices of the latticeMeshes unioned into combinedMesh so far
    resultMesh,        \* the mesh createLatticeGaugeSection returned
    thrown,            \* the statement whose exception reached the outer catch, "none" if none
    failedOps,         \* indices of the primitives whose Boolean operation threw and was caught
    issued,            \* the lattice parameters of the committed render (the effect's dependencies)
    effects,           \* the useEffect instances: their closure, isMounted flag and timer
    latticeGaugeMesh,  \* the viewer's latticeGaugeMesh state
    isLoading,         \* the viewer's isLoading state
    error              \* the viewer's error state

vars == <<pc, params, standard, profile, validationResult,
          latticeType, latticeParams, reduction, cursor, primitives, previous,
          gaugeGeometry, included, combinedMesh, resultMesh, thrown, failedOps,
          issued, effects, latticeGaugeMesh, isLoading, error>>

Abs(v) == IF v < 0 THEN -v ELSE v

Max(a, b) == IF a >= b THEN a ELSE b  \* Math.max on finite numbers

(***************************************************************************)
(* types.ts                                                                *)
(***************************************************************************)
ASTMStandard == {"E466", "E606", "E8"}

TransitionType == {"tangent-arc", "spline", "conical"}

MaterialType == {"steel", "aluminum", "titanium"}

(***************************************************************************)
(* Fixed-point representation of profile coordinates.                      *)
(***************************************************************************)
CosScale == 1000

Scale == 4 * CosScale

\* round(CosScale * cos(pi * i / 20)) for i = 0..20
CosTable == <<1000, 988, 951, 891, 809, 707, 588, 454, 309, 156, 0,
              -156, -309, -454, -588, -707, -809, -891, -951, -988, -1000>>

CotScale == 10000

\* round(CotScale / tan(a degrees)), a in tenths of a degree
CotTable == [a \in {50, 70, 75, 80, 85, 90, 95, 100, 120, 1350} |->
               CASE a = 50  -> 114301
                 [] a = 70  -> 81443
                 [] a = 75  -> 75958
                 [] a = 80  -> 71154
                 [] a = 85  -> 66912
                 [] a = 90  -> 63138
                 [] a = 95  -> 59758
                 [] a = 100 -> 56713
                 [] a = 120 -> 47046
                 [] a = 1350 -> -10000]

\* a params length (hundredths of a millimetre) as a profile coordinate
Coord(v) == v * Scale

(***************************************************************************)
(* specimen-generator: generateSpecimenProfile                             *)
(***************************************************************************)
numPoints == 20

\* Mutant: the conical transition ignores the fillet radius.
calculateTransitionLength_ByType(gripRadius, gaugeRadius, filletRadius, transitionType) ==
    LET radiusDifference == gripRadius - gaugeRadius
    IN  IF transitionType = "conical"
        THEN radiusDifference * 4
        ELSE Max(radiusDifference * 4, (filletRadius * 12) \div 10)

\* Math.max(radiusDifference * 4, filletRadius * 1.2); arguments are coordinates
calculateTransitionLength(gripRadius, gaugeRadius, filletRadius, transitionType) ==
    LET radiusDifference == gripRadius - gaugeRadius
    IN  Max(radiusDifference * 4, (filletRadius * 12) \div 10)

\* radiusDifference / Math.tan(taperAngle * Math.PI / 180)
calculateTaperedTransitionLength(gripRadius, gaugeRadius, taperAngle) ==
    LET radiusDifference == gripRadius - gaugeRadius
    IN  ((radiusDifference \div CosScale) * CotTable[taperAngle]) \div (CotScale \div CosScale)

\* Math.cos(Math.PI * t) for t = i / numPoints, scaled by CosScale
CosPiT(i) == CosTable[i + 1]

\* Mutant: x interpolated from the end point backwards.
generateTransitionPoints_Reversed(startPoint, endPoint, filletRadius, transitionType) ==
    [i \in 1..(numPoints - 1) |->
        [x |-> endPoint.x - ((endPoint.x - startPoint.x) * i) \div numPoints,
         y |-> startPoint.y
               + ((endPoint.y - startPoint.y) \div (2 * CosScale)) * (CosScale - CosPiT(i))]]

\* Mutant: quadratic ease-in (smoothT = t * t) instead of the cosine ease.
generateTransitionPoints_EaseIn(startPoint, endPoint, filletRadius, transitionType) ==
    [i \in 1..(numPoints - 1) |->
        [x |-> startPoint.x + ((endPoint.x - startPoint.x) * i) \div numPoints,
         y |-> startPoint.y
               + ((endPoint.y - startPoint.y) \div (numPoints * numPoints)) * (i * i)]]

\* Mutant: the conical transition is a straight line.
generateTransitionPoints_ByType(startPoint, endPoint, filletRadius, transitionType) ==
    [i \in 1..(numPoints - 1) |->
        [x |-> startPoint.x + ((endPoint.x - startPoint.x) * i) \div numPoints,
         y |-> IF transitionType = "conical"
               THEN startPoint.y + ((endPoint.y - startPoint.y) * i) \div numPoints
               ELSE startPoint.y
                    + ((endPoint.y - startPoint.y) \div (2 * CosScale)) * (CosScale - CosPiT(i))]]

\* the loop  for (let i = 1; i < numPoints; i++)  of generateTransitionPoints
generateTransitionPoints(startPoint, endPoint, filletRadius, transitionType) ==
    [i \in 1..(numPoints - 1) |->
        [x |-> startPoint.x + ((endPoint.x - startPoint.x) * i) \div numPoints,
         \* smoothT = (1 - cos(pi t)) / 2
         y |-> startPoint.y
               + ((endPoint.y - startPoint.y) \div (2 * CosScale)) * (CosScale - CosPiT(i))]]

Point(px, py) == [x |-> px, y |-> py]

\* Mutant: only one transition counted.
totalLengthOf_OneTransition(gripLength, gaugeLength, transitionLength) ==
    gripLength * 2 + gaugeLength + transitionLength

\* const totalLength = gripLength * 2 + gaugeLength + transitionLength * 2
totalLengthOf(gripLength, gaugeLength, transitionLength) ==
    gripLength * 2 + gaugeLength + transitionLength * 2

generateCircularSpecimenProfile(p) ==
    LET gripLength    == Coord(p.gripLength)
        gripDiameter  == Coord(p.gripDiameter)
        gaugeLength   == Coord(p.gaugeLength)
        gaugeDiameter == Coord(p.gaugeDiameter)
        filletRadius  == Coord(p.filletRadius)
        transitionLength ==
            IF p.useTaperedTransition
            THEN calculateTaperedTransitionLength(gripDiameter \div 2, gaugeDiameter \div 2,
                                                  p.taperAngle)
            ELSE calculateTransitionLength(gripDiameter \div 2, gaugeDiameter \div 2,
                                           filletRadius, p.transitionType)
        totalLength == totalLengthOf(gripLength, gaugeLength, transitionLength)
        leftEnd == << Point(-(totalLength \div 2), 0),
                      Point(-(totalLength \div 2), gripDiameter \div 2),
                      Point(-(gaugeLength \div 2) - transitionLength, gripDiameter \div 2) >>
        leftTransition ==
            IF p.useTaperedTransition
            THEN << Point(-(gaugeLength \div 2), gaugeDiameter \div 2) >>
            ELSE generateTransitionPoints(
                     Point(-(gaugeLength \div 2) - transitionLength, gripDiameter \div 2),
                     Point(-(gaugeLength \div 2), gaugeDiameter \div 2),
                     filletRadius, p.transitionType)
        gauge == << Point(-(gaugeLength \div 2), gaugeDiameter \div 2),
                    Point(gaugeLength \div 2, gaugeDiameter \div 2) >>
        rightTransition ==
            IF p.useTaperedTransition
            THEN << Point(gaugeLength \div 2 + transitionLength, gripDiameter \div 2) >>
            ELSE generateTransitionPoints(
                     Point(gaugeLength \div 2, gaugeDiameter \div 2),
                     Point(gaugeLength \div 2 + transitionLength, gripDiameter \div 2),
                     filletRadius, p.transitionType)
        rightEnd == << Point(gaugeLength \div 2 + transitionLength, gripDiameter \div 2),
                       Point(totalLength \div 2, gripDiameter \div 2),
                       Point(totalLength \div 2, 0) >>
    IN  [points               |-> leftEnd \o leftTransition \o gauge \o rightTransition \o rightEnd,
         totalLength          |-> totalLength,
         gripLength           |-> gripLength,
         gaugeLength          |-> gaugeLength,
         transitionLength     |-> transitionLength,
         gripDiameter         |-> gripDiameter,
         gaugeDiameter        |-> gaugeDiameter,
         filletRadius         |-> filletRadius,
         isCircular           |-> TRUE,
         useTaperedTransition |-> p.useTaperedTransition,
         taperAngle           |-> p.taperAngle,
         latticeType          |-> p.latticeType,
         latticeSize          |-> p.latticeSize,
         latticeThickness     |-> p.latticeThickness,
         latticeOffset        |-> p.latticeOffset]

generateSpecimenProfile(type, p) == generateCircularSpecimenProfile(p)

(***************************************************************************)
(* specimen-validator: validateSpecimen                                    *)
(***************************************************************************)
\* IEEE comparison  n / d < a / b  of the quotient of two finite numbers with a
\* positive literal a / b (b > 0): n / 0 is +Infinity, -Infinity or NaN
QuotientLess(n, d, a, b) ==
    IF d > 0 THEN n * b < a * d
    ELSE IF d < 0 THEN n * b > a * d
    ELSE n < 0

\* IEEE comparison  n / d > a / b
QuotientGreater(n, d, a, b) ==
    IF d > 0 THEN n * b > a * d
    ELSE IF d < 0 THEN n * b < a * d
    ELSE n > 0

\* Number.prototype.toFixed(1) of v hundredths: the nearest tenth, ties away from zero
toFixed1(v) == IF v < 0 THEN -((-v + 5) \div 10) ELSE (v + 5) \div 10

MsgDiameter == << "Gauge diameter must be smaller than grip diameter for proper stress concentration." >>

MsgFillet(minRadius) == << "Fillet radius should be at least ", toFixed1(minRadius),
                           "mm for smooth transition." >>

MsgE466 == << "For E466, gauge length should be at least 2 times the gauge diameter." >>

MsgE606 == << "For E606, gauge length should be between 1.5 and 3 times the gauge diameter." >>

MsgTaper == << "Taper angle must be between 7 and 10 degrees for proper transition." >>

MsgValid == << "Specimen design meets ASTM standards." >>

validateSpecimen(type, p, std) ==
    LET minRadius == (p.gripDiameter - p.gaugeDiameter) * 4
    IN  IF p.gaugeDiameter >= p.gripDiameter
        THEN [valid |-> FALSE, message |-> MsgDiameter]
        ELSE IF ~p.useTaperedTransition /\ p.filletRadius < minRadius
        THEN [valid |-> FALSE, message |-> MsgFillet(minRadius)]
        ELSE IF std = "E466" /\ QuotientLess(p.gaugeLength, p.gaugeDiameter, 2, 1)
        THEN [valid |-> FALSE, message |-> MsgE466]
        ELSE IF std = "E606" /\ (\/ QuotientLess(p.gaugeLength, p.gaugeDiameter, 3, 2)
                                 \/ QuotientGreater(p.gaugeLength, p.gaugeDiameter, 3, 1))
        THEN [valid |-> FALSE, message |-> MsgE606]
        ELSE IF p.useTaperedTransition /\ (p.taperAngle < 70 \/ p.taperAngle > 100)
        THEN [valid |-> FALSE, message |-> MsgTaper]
        ELSE [valid |-> TRUE, message |-> MsgValid]

(***************************************************************************)
(* Inputs of the modelled calls.  Lengths in hundredths of a millimetre,   *)
(* angles in tenths of a degree.  The sets hold the designer's defaults    *)
(* (specimen-designer.tsx), the three standard templates                   *)
(* (standard-templates.ts) and values a user can type into the form:       *)
(* zero, a negative length, a gauge wider than the grip, an angle outside  *)
(* the slider's range.                                                     *)
(***************************************************************************)
GripLengths == {-1000, 4500, 5000}

GripDiameters == {800, 1500, 1600}

GaugeLengths == {0, 1500, 3000}

GaugeDiameters == {0, 635, 700, 1000}

FilletRadii == {0, 2000, 7000}

TaperAngles == {50, 70, 80, 100, 120, 1350}

SpecimenParamsSpace ==
    { [gripLength |-> gl, gripDiameter |-> gd, gaugeLength |-> gal, gaugeDiameter |-> gad,
       filletRadius |-> fr, transitionType |-> tt, useTaperedTransition |-> ut,
       taperAngle |-> ta, material |-> "steel", latticeType |-> "none",
       latticeSize |-> 200, latticeThickness |-> 50, latticeOffset |-> 50] :
      gl \in GripLengths, gd \in GripDiameters, gal \in GaugeLengths,
      gad \in GaugeDiameters, fr \in FilletRadii, tt \in TransitionType,
      ut \in BOOLEAN, ta \in TaperAngles }

Idle == "idle"

ViewerIdle ==
    /\ issued = Idle
    /\ effects = Idle
    /\ latticeGaugeMesh = Idle
    /\ isLoading = Idle
    /\ error = Idle

LatticeIdle ==
    /\ latticeType = Idle
    /\ latticeParams = Idle
    /\ reduction = Idle
    /\ cursor = Idle
    /\ primitives = Idle
    /\ previous = Idle
    /\ gaugeGeometry = Idle
    /\ included = Idle
    /\ combinedMesh = Idle
    /\ resultMesh = Idle
    /\ thrown = Idle
    /\ failedOps = Idle
    /\ ViewerIdle

(***************************************************************************)
(* One call of generateSpecimenProfile("circular", params).                *)
(***************************************************************************)
ProfileInit ==
    /\ pc = "ready"
    /\ params \in SpecimenParamsSpace
    /\ standard = Idle
    /\ profile = Idle
    /\ validationResult = Idle
    /\ LatticeIdle

GenerateProfile ==
    /\ pc = "ready"
    /\ profile' = generateSpecimenProfile("circular", params)
    /\ pc' = "done"
    /\ UNCHANGED <<params, standard, validationResult,
                   latticeType, latticeParams, reduction, cursor, primitives, previous,
                   gaugeGeometry, included, combinedMesh, resultMesh, thrown, failedOps,
                   issued, effects, latticeGaugeMesh, isLoading, error>>

ProfileNext == GenerateProfile

SpecProfile == ProfileInit /\ [][ProfileNext]_vars

(***************************************************************************)
(* One call of validateSpecimen("circular", params, standard).             *)
(***************************************************************************)
ValidateInit ==
    /\ pc = "ready"
    /\ params \in SpecimenParamsSpace
    /\ standard \in ASTMStandard
    /\ profile = Idle
    /\ validationResult = Idle
    /\ LatticeIdle

Validate ==
    /\ pc = "ready"
    /\ validationResult' = validateSpecimen("circular", params, standard)
    /\ pc' = "done"
    /\ UNCHANGED <<params, standard, profile,
                   latticeType, latticeParams, reduction, cursor, primitives, previous,
                   gaugeGeometry, included, combinedMesh, resultMesh, thrown, failedOps,
                   issued, effects, latticeGaugeMesh, isLoading, error>>

ValidateNext == Validate

SpecValidate == ValidateInit /\ [][ValidateNext]_vars

(***************************************************************************)
(* Claims about generateSpecimenProfile (SpecProfile).                     *)
(***************************************************************************)
Points == profile.points

\* the preconditions of the profile generator
ProfilePrecondition(p) ==
    /\ p.gaugeDiameter < p.gripDiameter
    /\ p.gripLength > 0
    /\ p.gaugeLength > 0
    /\ p.filletRadius >= 0
    /\ p.useTaperedTransition => p.taperAngle \in 70..100

\* C1: under the generator's preconditions the returned points are non-decreasing
\* in x (every consecutive pair), in the tapered and in the non-tapered branch.
C1_XMonotone ==
    (pc = "done" /\ ProfilePrecondition(params)) =>
        \A i \in 1..(Len(Points) - 1) : Points[i].x <= Points[i + 1].x

\* a curved (non-tapered) profile under the preconditions, with its 46 points
C1_Witness ==
    /\ pc = "done"
    /\ ProfilePrecondition(params)
    /\ ~params.useTaperedTransition
    /\ Len(Points) = 46
    /\ Points[3].x < Points[4].x

\* C2: totalLength = 2 gripLength + gaugeLength + 2 transitionLength of the same
\* Profile, and the points run from (-totalLength/2, 0) to (+totalLength/2, 0).
C2_TotalLengthSpans ==
    pc = "done" =>
        /\ profile.totalLength
             = 2 * profile.gripLength + profile.gaugeLength + 2 * profile.transitionLength
        /\ 2 * Points[1].x = -profile.totalLength
        /\ Points[1].y = 0
        /\ 2 * Points[Len(Points)].x = profile.totalLength
        /\ Points[Len(Points)].y = 0

\* a generated profile with a transition of positive length
C2_Witness ==
    /\ pc = "done"
    /\ profile.transitionLength > 0
    /\ profile.totalLength > 0
    /\ Points[1].x < 0

\* the worked example: gripLength 50, gripDiameter 15, gaugeLength 30, gaugeDiameter 7,
\* filletRadius 70, not tapered
IsExample(p) ==
    /\ p.gripLength = 5000 /\ p.gripDiameter = 1500
    /\ p.gaugeLength = 3000 /\ p.gaugeDiameter = 700
    /\ p.filletRadius = 7000 /\ ~p.useTaperedTransition

\* C3: not tapered, transitionLength = max((gripDiameter/2 - gaugeDiameter/2) * 4,
\* filletRadius * 1.2) whatever the transitionType; the example gives 84 and 298.
C3_TransitionLength ==
    (pc = "done" /\ ~params.useTaperedTransition) =>
        /\ 10 * profile.transitionLength
             = Scale * Max((params.gripDiameter - params.gaugeDiameter) * 20,
                           params.filletRadius * 12)
        /\ IsExample(params) =>
             /\ profile.transitionLength = Coord(8400)
             /\ profile.totalLength = Coord(29800)

\* the worked example with the conical transition type
C3_Witness ==
    /\ pc = "done"
    /\ IsExample(params)
    /\ params.transitionType = "conical"
    /\ profile.transitionLength = Coord(8400)

\* C4: the profile is symmetric about x = 0: every point (x, y) has its mirror
\* image (-x, y) in the same sequence.
C4_Symmetric ==
    pc = "done" =>
        \A i \in 1..Len(Points) :
            \E j \in 1..Len(Points) :
                /\ Points[j].x = -Points[i].x
                /\ Points[j].y = Points[i].y

\* a curved profile whose transition first sample (left) mirrors the last sample (right)
C4_Witness ==
    /\ pc = "done"
    /\ ~params.useTaperedTransition
    /\ params.gaugeDiameter < params.gripDiameter
    /\ Points[4].x < 0
    /\ Points[4].y < Points[3].y
    /\ Points[43].x = -Points[4].x
    /\ Points[43].y = Points[4].y

\* the points of one transition curve that lie between its start point (the
\* end of the grip edge) and its end point (the start of the gauge section):
\* the profile is 3 points, a transition, 2 points, a transition, 3 points
InteriorSamples == (Len(Points) - 8) \div 2

\* C21: in the non-tapered case each of the two transition curves contributes
\* exactly 20 sample points between its start point and its end point.
C21_TwentyInteriorSamples ==
    (pc = "done" /\ ~params.useTaperedTransition) =>
        /\ Len(Points) = 8 + 2 * InteriorSamples
        /\ InteriorSamples = 20

ClampTaper(taperAngle) == Max(70, IF taperAngle > 100 THEN 100 ELSE taperAngle)

\* C19: with useTaperedTransition the taper angle is clamped to [7, 10] degrees
\* before transitionLength = (gripRadius - gaugeRadius) / tan(taperAngle) is
\* computed, so transitionLength and totalLength are positive for every taper
\* angle (for a grip wider than the gauge and positive lengths).
C19_TaperAngleClamped ==
    (/\ pc = "done"
     /\ params.useTaperedTransition
     /\ params.gaugeDiameter < params.gripDiameter
     /\ params.gripLength > 0
     /\ params.gaugeLength > 0) =>
        /\ profile.transitionLength =
              calculateTaperedTransitionLength(Coord(params.gripDiameter) \div 2,
                                               Coord(params.gaugeDiameter) \div 2,
                                               ClampTaper(params.taperAngle))
        /\ profile.transitionLength > 0
        /\ profile.totalLength > 0

(***************************************************************************)
(* Claims about validateSpecimen (SpecValidate).                           *)
(***************************************************************************)
\* the quotient n / d is a number that is at least a / b (b > 0): +Infinity is,
\* -Infinity and the undefined quotient 0 / 0 are not
QuotientAtLeast(n, d, a, b) ==
    IF d > 0 THEN n * b >= a * d
    ELSE IF d < 0 THEN n * b <= a * d
    ELSE n > 0

\* the quotient n / d is a number that is at most a / b (b > 0)
QuotientAtMost(n, d, a, b) ==
    IF d > 0 THEN n * b <= a * d
    ELSE IF d < 0 THEN n * b >= a * d
    ELSE n < 0

\* rule 1: gaugeDiameter < gripDiameter
Rule1Holds(p) == p.gaugeDiameter < p.gripDiameter

\* rule 2: tapered, or filletRadius >= (gripDiameter - gaugeDiameter) * 4
Rule2Holds(p) ==
    p.useTaperedTransition \/ p.filletRadius >= (p.gripDiameter - p.gaugeDiameter) * 4

\* rule 3: gaugeLength / gaugeDiameter in [1.5, 3] for E606, >= 2 for E466, free for E8
Rule3Holds(p, std) ==
    /\ std = "E606" => /\ QuotientAtLeast(p.gaugeLength, p.gaugeDiameter, 3, 2)
                       /\ QuotientAtMost(p.gaugeLength, p.gaugeDiameter, 3, 1)
    /\ std = "E466" => QuotientAtLeast(p.gaugeLength, p.gaugeDiameter, 2, 1)

\* rule 4: not tapered, or taperAngle in [7, 10]
Rule4Holds(p) == ~p.useTaperedTransition \/ p.taperAngle \in 70..100

\* C5: valid = true if and only if rules 1 to 4 all hold.
C5_ValidIffAllRules ==
    pc = "done" =>
        (validationResult.valid <=>
            /\ Rule1Holds(params)
            /\ Rule2Holds(params)
            /\ Rule3Holds(params, standard)
            /\ Rule4Holds(params))

\* the message of the lowest-numbered rule that fails
FirstFailingMessage(p, std) ==
    IF ~Rule1Holds(p) THEN MsgDiameter
    ELSE IF ~Rule2Holds(p) THEN MsgFillet((p.gripDiameter - p.gaugeDiameter) * 4)
    ELSE IF ~Rule3Holds(p, std) THEN (IF std = "E466" THEN MsgE466 ELSE MsgE606)
    ELSE MsgTaper

\* C6: when one or several rules fail, the result is invalid with the message of
\* the lowest-numbered failing rule; a gauge not narrower than the grip always
\* yields the diameter message.
C6_FirstFailingRule ==
    pc = "done" =>
        /\ ~(/\ Rule1Holds(params) /\ Rule2Holds(params)
             /\ Rule3Holds(params, standard) /\ Rule4Holds(params))
             => validationResult = [valid |-> FALSE,
                                    message |-> FirstFailingMessage(params, standard)]
        /\ params.gaugeDiameter >= params.gripDiameter
             => validationResult.message = MsgDiameter

(***************************************************************************)
(* lattice-generators.ts: calculateLatticeVolumeReduction                  *)
(*                                                                         *)
(* LatticeParams lengths (size, thickness, radius, length) are integers in *)
(* lattice units, UnitsPerMm to the millimetre; offset is in hundredths.   *)
(* The returned fraction is kept as [num, den]: pi cancels between the     *)
(* feature volume and the gauge volume.                                    *)
(***************************************************************************)
UnitsPerMm == 2 * 12

VerticalLatticeType == {"none", "vertical-grid", "vertical-cross", "vertical-diamond",
                        "vertical-gyroid", "simple-vertical", "vertical"}

Fraction(n, d) == [num |-> n, den |-> d]

Sign(n) == IF n > 0 THEN 1 ELSE IF n < 0 THEN -1 ELSE 0

\* Math.floor(a / b) for b other than 0
FloorQuotient(a, b) == IF b > 0 THEN a \div b ELSE (-a) \div (-b)

\* Mutant: "none" is estimated by the switch's default case
calculateLatticeVolumeReduction_NoEarlyReturn(type, lp) ==
    CASE type = "vertical-grid"    -> Fraction(2500 + lp.offset * 20, 10000)
      [] type = "vertical-cross"   -> Fraction(3000 + lp.offset * 25, 10000)
      [] type = "vertical-diamond" -> Fraction(3500 + lp.offset * 30, 10000)
      [] type = "vertical-gyroid"  -> Fraction(4000 + lp.offset * 35, 10000)
      [] OTHER                     -> Fraction(2, 10)

\* Mutant: the holes are corrected by the factor of the struts
calculateLatticeVolumeReduction_SameFactor(type, lp) ==
    IF type = "none" THEN Fraction(0, 1)
    ELSE
    LET gaugeVolume == lp.radius * lp.radius * lp.length
        spacing     == lp.size * 2
        numStruts   == FloorQuotient(lp.length, spacing) - 1
        strutVolume == lp.thickness * lp.thickness * (lp.radius * 2)
    IN  CASE type \in {"simple-vertical", "vertical"} ->
                IF spacing = 0
                THEN Fraction(Sign(lp.length) * Sign(strutVolume) * Sign(gaugeVolume), 0)
                ELSE Fraction(numStruts * strutVolume * 5, gaugeVolume * 10)
          [] type = "vertical-grid"    -> Fraction(2500 + lp.offset * 20, 10000)
          [] type = "vertical-cross"   -> Fraction(3000 + lp.offset * 25, 10000)
          [] type = "vertical-diamond" -> Fraction(3500 + lp.offset * 30, 10000)
          [] type = "vertical-gyroid"  -> Fraction(4000 + lp.offset * 35, 10000)
          [] OTHER                     -> Fraction(2, 10)

\* The fraction num / den is the IEEE quotient: den = 0 stands for +Infinity,
\* -Infinity or NaN as num is positive, negative or 0.  With size = 0 the strut
\* count floor(length / 0) - 1 is infinite (NaN for length = 0), and so is the
\* result unless a zero factor makes it NaN.
calculateLatticeVolumeReduction(type, lp) ==
    IF type = "none" THEN Fraction(0, 1)
    ELSE
    LET size      == lp.size
        thickness == lp.thickness
        offset    == lp.offset
        radius    == lp.radius
        length    == lp.length
        \* Math.PI * radius * radius * length, without the factor pi
        gaugeVolume == radius * radius * length
        spacing     == size * 2
        numStruts   == FloorQuotient(length, spacing) - 1
        \* Math.PI * thickness * thickness * (radius * 2), without the factor pi
        strutVolume == thickness * thickness * (radius * 2)
        nonFinite   == Fraction(Sign(length) * Sign(strutVolume) * Sign(gaugeVolume), 0)
    IN  CASE type = "simple-vertical" ->
                IF spacing = 0 THEN nonFinite
                ELSE Fraction(numStruts * strutVolume * 5, gaugeVolume * 10)
          [] type = "vertical"        ->
                IF spacing = 0 THEN nonFinite
                ELSE Fraction(numStruts * strutVolume * 8, gaugeVolume * 10)
          [] type = "vertical-grid"    -> Fraction(2500 + offset * 20, 10000)
          [] type = "vertical-cross"   -> Fraction(3000 + offset * 25, 10000)
          [] type = "vertical-diamond" -> Fraction(3500 + offset * 30, 10000)
          [] type = "vertical-gyroid"  -> Fraction(4000 + offset * 35, 10000)
          [] OTHER                     -> Fraction(2, 10)

\* LatticeParams of the analysis panel: slider values of the form (size 0.5, 2, 5 mm;
\* thickness 0.5, 1 mm; offset 0.1, 0.5, 1) and gauge dimensions (radius 1, 3.5 mm;
\* length 8, 15, 30 mm), and the zero and negative values a caller can pass
VolumeParamsSpace ==
    { [size |-> s, thickness |-> t, offset |-> o, radius |-> r, length |-> l] :
      s \in {-48, 0, 12, 48, 120}, t \in {0, 12, 24}, o \in {10, 50, 100},
      r \in {-24, 0, 24, 84}, l \in {-192, 0, 192, 360, 720} }

SpecimenIdle ==
    /\ params = Idle
    /\ standard = Idle
    /\ profile = Idle
    /\ validationResult = Idle

VolumeInit ==
    /\ pc = "ready"
    /\ latticeType \in VerticalLatticeType
    /\ latticeParams \in VolumeParamsSpace
    /\ reduction = Idle
    /\ cursor = Idle
    /\ primitives = Idle
    /\ previous = Idle
    /\ gaugeGeometry = Idle
    /\ included = Idle
    /\ combinedMesh = Idle
    /\ resultMesh = Idle
    /\ thrown = Idle
    /\ failedOps = Idle
    /\ ViewerIdle
    /\ SpecimenIdle

EstimateVolume ==
    /\ pc = "ready"
    /\ reduction' = calculateLatticeVolumeReduction(latticeType, latticeParams)
    /\ pc' = "done"
    /\ UNCHANGED <<params, standard, profile, validationResult,
                   latticeType, latticeParams, cursor, primitives, previous,
                   gaugeGeometry, included, combinedMesh, resultMesh, thrown, failedOps,
                   issued, effects, latticeGaugeMesh, isLoading, error>>

VolumeNext == EstimateVolume

SpecVolume == VolumeInit /\ [][VolumeNext]_vars

\* C7: for every defined lattice type and positive size, thickness, offset, radius
\* and length the returned fraction f satisfies 0 <= f < 1.
C7_FractionInUnitInterval ==
    (/\ pc = "done"
     /\ latticeParams.size > 0 /\ latticeParams.thickness > 0 /\ latticeParams.offset > 0
     /\ latticeParams.radius > 0 /\ latticeParams.length > 0) =>
        /\ QuotientAtLeast(reduction.num, reduction.den, 0, 1)
        /\ QuotientLess(reduction.num, reduction.den, 1, 1)

\* C18: calculateLatticeVolumeReduction("none", params) returns exactly 0 for
\* every params, zero or negative size, radius and length included.
C18_NoneReducesNothing ==
    (pc = "done" /\ latticeType = "none") =>
        reduction.num = 0 /\ reduction.den = 1

\* "none" was estimated with size 0, a negative radius and length 0
C18_Witness ==
    /\ pc = "done"
    /\ latticeType = "none"
    /\ latticeParams.size = 0
    /\ latticeParams.radius < 0
    /\ latticeParams.length = 0
    /\ reduction.num = 0

\* C23: for simple-vertical and vertical the returned value is
\* n * (pi * thickness^2 * 2 * radius) / (pi * radius^2 * length) * c with
\* n = floor(length / (2 * size)) - 1, c = 0.5 for simple-vertical and c = 0.8
\* for vertical (the quotient of the products below, both without pi and with c
\* in tenths; for size = 0, where n is not finite, a non-finite value).
C23_StrutAndHoleFormula ==
    (pc = "done" /\ latticeType \in {"simple-vertical", "vertical"}) =>
        LET lp == latticeParams
            c  == IF latticeType = "simple-vertical" THEN 5 ELSE 8
            featureVolume == lp.thickness * lp.thickness * 2 * lp.radius
        IN  IF lp.size # 0
            THEN LET n == (IF lp.size > 0 THEN lp.length \div (2 * lp.size)
                           ELSE (-lp.length) \div (-(2 * lp.size))) - 1
                 IN  /\ reduction.num = n * featureVolume * c
                     /\ reduction.den = lp.radius * lp.radius * lp.length * 10
            ELSE /\ reduction.den = 0
                 /\ reduction.num \in {-1, 0, 1}
                 /\ reduction.num = 0 <=>
                       (lp.length = 0 \/ lp.thickness = 0 \/ lp.radius = 0)

\* the holes of a 30 mm gauge with 2 mm cells were estimated: 6 holes
C23_Witness ==
    /\ pc = "done"
    /\ latticeType = "vertical"
    /\ latticeParams.size = 48
    /\ latticeParams.length = 720
    /\ latticeParams.radius = 84
    /\ latticeParams.thickness = 12
    /\ reduction.num = 6 * (12 * 12 * 168) * 8

(***************************************************************************)
(* materials.ts: the lattice generators                                    *)
(*                                                                         *)
(* Coordinates are integers in lattice units.  A primitive is a record     *)
(*   [kind, a, b, r]: kind "sphere" (centre a = b), "strut" (createStrut   *)
(*   from a to b) or "cylinder" (a THREE.CylinderGeometry positioned at    *)
(*   a = b); r is its radius in tenths of a lattice unit.                  *)
(* Math.random() < p is a nondeterministic Boolean: the source seeds       *)
(* nothing.                                                                *)
(***************************************************************************)
Vec(x, y, z) == <<x, y, z>>

Add(u, v) == <<u[1] + v[1], u[2] + v[2], u[3] + v[3]>>

Sphere(center, radius10) == [kind |-> "sphere", a |-> center, b |-> center, r |-> radius10]

Cylinder(position, radius10) ==
    [kind |-> "cylinder", a |-> position, b |-> position, r |-> radius10]

\* Math.ceil(a / b) for b > 0
Ceil(a, b) == -((-a) \div b)

\* the concatenation of a sequence of sequences
RECURSIVE Flatten(_)
Flatten(ss) == IF ss = <<>> THEN <<>> ELSE Head(ss) \o Flatten(Tail(ss))

\* the negation of  x < -length / 2 || x > length / 2
withinLength(x, lp) == ~(2 * x < -lp.length \/ 2 * x > lp.length)

\* Mutant: each coordinate compared with the radius on its own.
withinRadius_Box(y, z, lp) == ~(y > lp.radius \/ -y > lp.radius \/ z > lp.radius \/ -z > lp.radius)

\* the negation of  Math.sqrt(y * y + z * z) > radius
withinRadius(y, z, lp) == ~(y * y + z * z > lp.radius * lp.radius)

\* createStrut: null (no primitive) for a strut shorter than 0.3 mm
createStrut(start, end, radius10) ==
    LET dx == end[1] - start[1]
        dy == end[2] - start[2]
        dz == end[3] - start[3]
        lengthSq == dx * dx + dy * dy + dz * dz
    IN  IF lengthSq * 100 < 9 * UnitsPerMm * UnitsPerMm
        THEN <<>>
        ELSE << [kind |-> "strut", a |-> start, b |-> end, r |-> radius10] >>

\* const cellsX = Math.ceil(length / size)
cellsX(lp) == Ceil(lp.length, lp.size)

\* const cellsY = cellsZ = Math.ceil((radius * 2) / size)
cellsYZ(lp) == Ceil(lp.radius * 2, lp.size)

\* number of iterations of the three nested cell loops
cellCount(lp) == cellsX(lp) * cellsYZ(lp) * cellsYZ(lp)

\* the cell origin (x0, y0, z0) of the k-th iteration, k = 0, 1, ...:
\* x runs from -cellsX / 2 in steps of 1 while x < cellsX / 2, y and z likewise
cellOrigin(lp, k) ==
    LET nyz == cellsYZ(lp)
        ix  == k \div (nyz * nyz)
        iy  == (k \div nyz) % nyz
        iz  == k % nyz
    IN  Vec(((2 * ix - cellsX(lp)) * lp.size) \div 2,
            ((2 * iy - nyz) * lp.size) \div 2,
            ((2 * iz - nyz) * lp.size) \div 2)

\* both bounds tests of a point: the x test, then the distance from the axis
inBounds(point, lp) ==
    /\ withinLength(point[1], lp)
    /\ withinRadius(point[2], point[3], lp)

\* generateBCCLatticeMesh: the centre of the k-th cell
bccCenter(lp, k) ==
    LET o == cellOrigin(lp, k)
    IN  Vec(o[1] + lp.size \div 2, o[2] + lp.size \div 2, o[3] + lp.size \div 2)

\* +Y, +Z, -Y, -Z (vertical) and +X (horizontal, along gauge)
bccDirections(size) ==
    << Vec(0, size, 0), Vec(0, 0, size), Vec(0, -size, 0), Vec(0, 0, -size), Vec(size, 0, 0) >>

\* the directions of the k-th cell at which Math.random() < 0.4 is evaluated
bccDraws(lp, k) == IF inBounds(bccCenter(lp, k), lp) THEN {5} ELSE {}

\* generateBCCLatticeMesh, one cell; random[index] is Math.random() < 0.4
bccCell(lp, k, random) ==
    LET center == bccCenter(lp, k)
        connect(index) ==
            LET isVertical == index < 5
                endPoint   == Add(center, bccDirections(lp.size)[index])
            IN  IF ~(isVertical \/ random[index]) THEN <<>>
                ELSE IF ~withinLength(endPoint[1], lp) THEN <<>>
                ELSE IF ~withinRadius(endPoint[2], endPoint[3], lp) THEN <<>>
                ELSE createStrut(center, endPoint,
                                 IF isVertical THEN lp.thickness * 5 ELSE lp.thickness * 3)
    IN  IF ~withinLength(center[1], lp) THEN <<>>
        ELSE IF ~withinRadius(center[2], center[3], lp) THEN <<>>
        ELSE << Sphere(center, lp.thickness * 8) >> \o Flatten([index \in 1..5 |-> connect(index)])

\* the pairs (i, j), i < j, of the double loop over faceCenters, in loop order
fccPairs == << <<1, 2>>, <<1, 3>>, <<1, 4>>, <<1, 5>>, <<1, 6>>, <<2, 3>>, <<2, 4>>, <<2, 5>>,
               <<2, 6>>, <<3, 4>>, <<3, 5>>, <<3, 6>>, <<4, 5>>, <<4, 6>>, <<5, 6>> >>

\* Math.abs(p.x - q.x) < 0.01 * size
isVerticalPair(p, q, size) == 100 * Abs(p[1] - q[1]) < size

DistSq(p, q) ==
    (p[1] - q[1]) * (p[1] - q[1]) + (p[2] - q[2]) * (p[2] - q[2])
    + (p[3] - q[3]) * (p[3] - q[3])

\* generateFCCLatticeMesh: faceCenters of the k-th cell
faceCenters(lp, k) ==
    LET size == lp.size
        half == size \div 2
        o    == cellOrigin(lp, k)
    IN  << Vec(o[1], o[2] + half, o[3] + half),
           Vec(o[1] + size, o[2] + half, o[3] + half),
           Vec(o[1] + half, o[2], o[3]),
           Vec(o[1] + half, o[2] + size, o[3]),
           Vec(o[1] + half, o[2], o[3] + size),
           Vec(o[1] + half, o[2] + size, o[3] + size) >>

\* the pair passes both bounds tests and distance <= Math.sqrt(2) * size
fccClose(lp, k, n) ==
    LET center1 == faceCenters(lp, k)[fccPairs[n][1]]
        center2 == faceCenters(lp, k)[fccPairs[n][2]]
    IN  /\ withinLength(center1[1], lp) /\ withinLength(center2[1], lp)
        /\ withinRadius(center1[2], center1[3], lp)
        /\ withinRadius(center2[2], center2[3], lp)
        /\ DistSq(center1, center2) <= 2 * lp.size * lp.size

\* the pairs of the k-th cell at which Math.random() < 0.7 is evaluated
fccDraws(lp, k) ==
    { n \in 1..Len(fccPairs) :
        /\ fccClose(lp, k, n)
        /\ ~isVerticalPair(faceCenters(lp, k)[fccPairs[n][1]],
                           faceCenters(lp, k)[fccPairs[n][2]], lp.size) }

\* generateFCCLatticeMesh, one cell; random[n] is Math.random() < 0.7 at pair n
fccCell(lp, k, random) ==
    LET atom(i) ==
            LET center == faceCenters(lp, k)[i]
            IN  IF ~withinLength(center[1], lp) THEN <<>>
                ELSE IF ~withinRadius(center[2], center[3], lp) THEN <<>>
                ELSE << Sphere(center, lp.thickness * 10) >>
        connect(n) ==
            LET center1 == faceCenters(lp, k)[fccPairs[n][1]]
                center2 == faceCenters(lp, k)[fccPairs[n][2]]
            IN  IF ~fccClose(lp, k, n) THEN <<>>
                ELSE IF isVerticalPair(center1, center2, lp.size) \/ random[n]
                     THEN createStrut(center1, center2, lp.thickness * 4)
                     ELSE <<>>
    IN  Flatten([i \in 1..6 |-> atom(i)]) \o Flatten([n \in 1..Len(fccPairs) |-> connect(n)])

\* fractional atom positions of the diamond unit cell, in quarters of the cell size
diamondPositions == << <<0, 0, 0>>, <<0, 2, 2>>, <<2, 0, 2>>, <<2, 2, 0>>,
                       <<1, 1, 1>>, <<1, 3, 3>>, <<3, 1, 3>>, <<3, 3, 1>> >>

\* the bonds, as indices into diamondPositions (counted from 1)
diamondBonds == << <<1, 5>>, <<2, 6>>, <<3, 7>>, <<4, 8>>, <<5, 6>>,
                   <<5, 7>>, <<5, 8>>, <<6, 7>>, <<6, 8>>, <<7, 8>> >>

\* generateDiamondLatticeMesh: the i-th atom of the k-th cell
diamondAtom(lp, k, i) ==
    LET quarter == lp.size \div 4
        o       == cellOrigin(lp, k)
    IN  Vec(o[1] + diamondPositions[i][1] * quarter,
            o[2] + diamondPositions[i][2] * quarter,
            o[3] + diamondPositions[i][3] * quarter)

\* both atoms of bond n pass both bounds tests
diamondBondInBounds(lp, k, n) ==
    LET atom1 == diamondAtom(lp, k, diamondBonds[n][1])
        atom2 == diamondAtom(lp, k, diamondBonds[n][2])
    IN  /\ withinLength(atom1[1], lp) /\ withinLength(atom2[1], lp)
        /\ withinRadius(atom1[2], atom1[3], lp)
        /\ withinRadius(atom2[2], atom2[3], lp)

\* the bonds of the k-th cell at which Math.random() < 0.7 is evaluated
diamondDraws(lp, k) ==
    { n \in 1..Len(diamondBonds) :
        /\ diamondBondInBounds(lp, k, n)
        /\ ~isVerticalPair(diamondAtom(lp, k, diamondBonds[n][1]),
                           diamondAtom(lp, k, diamondBonds[n][2]), lp.size) }

\* generateDiamondLatticeMesh, one cell; random[n] is Math.random() < 0.7 at bond n
diamondCell(lp, k, random) ==
    LET atom(i) ==
            LET pos == diamondAtom(lp, k, i)
            IN  IF ~withinLength(pos[1], lp) THEN <<>>
                ELSE IF ~withinRadius(pos[2], pos[3], lp) THEN <<>>
                ELSE << Sphere(pos, lp.thickness * 10) >>
        bond(n) ==
            LET atom1 == diamondAtom(lp, k, diamondBonds[n][1])
                atom2 == diamondAtom(lp, k, diamondBonds[n][2])
            IN  IF ~diamondBondInBounds(lp, k, n) THEN <<>>
                ELSE IF isVerticalPair(atom1, atom2, lp.size) \/ random[n]
                     THEN createStrut(atom1, atom2, lp.thickness * 3)
                     ELSE <<>>
    IN  Flatten([i \in 1..8 |-> atom(i)]) \o Flatten([n \in 1..Len(diamondBonds) |-> bond(n)])

\* the cube edges, as indices into corners (counted from 1); the first four are vertical
cubeEdges == << <<1, 5>>, <<2, 6>>, <<3, 7>>, <<4, 8>>, <<1, 3>>, <<2, 4>>,
                <<5, 7>>, <<6, 8>>, <<1, 2>>, <<3, 4>>, <<5, 6>>, <<7, 8>> >>

\* the main diagonals
diagonals == << <<1, 8>>, <<2, 7>>, <<3, 6>>, <<4, 5>> >>

\* generateOctetLatticeMesh: corners of the k-th cell
corners(lp, k) ==
    LET size == lp.size
        o    == cellOrigin(lp, k)
    IN  << Vec(o[1], o[2], o[3]),
           Vec(o[1] + size, o[2], o[3]),
           Vec(o[1], o[2] + size, o[3]),
           Vec(o[1] + size, o[2] + size, o[3]),
           Vec(o[1], o[2], o[3] + size),
           Vec(o[1] + size, o[2], o[3] + size),
           Vec(o[1], o[2] + size, o[3] + size),
           Vec(o[1] + size, o[2] + size, o[3] + size) >>

\* both corners of an edge or diagonal of the cell with corners cs pass both
\* bounds tests
octetInBounds(cs, lp, pair) ==
    /\ withinLength(cs[pair[1]][1], lp) /\ withinLength(cs[pair[2]][1], lp)
    /\ withinRadius(cs[pair[1]][2], cs[pair[1]][3], lp)
    /\ withinRadius(cs[pair[2]][2], cs[pair[2]][3], lp)

\* the draws of the k-th cell: n for Math.random() < 0.7 at cube edge n,
\* Len(cubeEdges) + n for Math.random() < 0.3 at diagonal n
octetDraws(lp, k) ==
    LET cs == corners(lp, k)
    IN  { n \in 5..Len(cubeEdges) : octetInBounds(cs, lp, cubeEdges[n]) }
        \cup { Len(cubeEdges) + n :
                 n \in { m \in 1..Len(diagonals) : octetInBounds(cs, lp, diagonals[m]) } }

\* generateOctetLatticeMesh, one cell
octetCell(lp, k, random) ==
    LET cs == corners(lp, k)
        node(i) ==
            IF ~withinLength(cs[i][1], lp) THEN <<>>
            ELSE IF ~withinRadius(cs[i][2], cs[i][3], lp) THEN <<>>
            ELSE << Sphere(cs[i], lp.thickness * 10) >>
        edge(index) ==
            LET isVertical == index < 5
            IN  IF ~octetInBounds(cs, lp, cubeEdges[index]) THEN <<>>
                ELSE IF isVertical \/ random[index]
                     THEN createStrut(cs[cubeEdges[index][1]], cs[cubeEdges[index][2]],
                                      lp.thickness * 3)
                     ELSE <<>>
        diagonal(n) ==
            IF ~octetInBounds(cs, lp, diagonals[n]) THEN <<>>
            ELSE IF random[Len(cubeEdges) + n]
                 THEN createStrut(cs[diagonals[n][1]], cs[diagonals[n][2]], lp.thickness * 3)
                 ELSE <<>>
    IN  Flatten([i \in 1..8 |-> node(i)])
        \o Flatten([index \in 1..Len(cubeEdges) |-> edge(index)])
        \o Flatten([n \in 1..Len(diagonals) |-> diagonal(n)])

\* const resolution = 6
resolution == 6

\* Math.sin and Math.cos of 2 * PI * n / 12, n = 0 .. 11, times TrigScale
TrigScale == 10000

Sin12 == << 0, 5000, 8660, 10000, 8660, 5000, 0, -5000, -8660, -10000, -8660, -5000 >>

Cos12 == << 10000, 8660, 5000, 0, -5000, -8660, -10000, -8660, -5000, 0, 5000, 8660 >>

\* the angle v * scale, scale = (2 * Math.PI) / size, in twelfths of a turn;
\* grid coordinates are whole multiples of size / 12
Twelfth(v, size) == ((v * 12) \div size) % 12

\* gyroidFunction(x, y, z, scale, offset) times TrigScale * TrigScale, with
\* scale = (2 * Math.PI) / size and offset in hundredths
gyroidFunction(x, y, z, size, offset) ==
    LET scaledX == Twelfth(x, size) + 1
        scaledY == Twelfth(y, size) + 1
        scaledZ == Twelfth(z, size) + 1
    IN  Sin12[scaledX] * Cos12[scaledY]
        + Sin12[scaledY] * Cos12[scaledZ]
        + Sin12[scaledZ] * Cos12[scaledX]
        - offset * ((TrigScale * TrigScale) \div 100)

\* const threshold = thickness * 1.2, times TrigScale * TrigScale
gyroidThreshold(lp) == lp.thickness * ((12 * TrigScale * TrigScale) \div (10 * UnitsPerMm))

\* const stepSize = size / resolution
stepSize(lp) == lp.size \div resolution

xSteps(lp) == Ceil(lp.length, stepSize(lp))

\* ySteps = zSteps = Math.ceil((radius * 2) / stepSize)
yzSteps(lp) == Ceil(lp.radius * 2, stepSize(lp))

\* number of iterations of the three nested sampling loops
sampleCount(lp) == xSteps(lp) * yzSteps(lp) * yzSteps(lp)

\* generateGyroidLatticeMesh, the k-th grid sample, k = 0, 1, ...
gyroidSample(lp, k) ==
    LET step == stepSize(lp)
        nyz  == yzSteps(lp)
        ix   == k \div (nyz * nyz)
        iy   == (k \div nyz) % nyz
        iz   == k % nyz
        x    == ix * step - lp.length \div 2
        y    == iy * step - lp.radius
        z    == iz * step - lp.radius
        value == gyroidFunction(y, x, z, lp.size, lp.offset)
        nextX == x + step
        nextY == y + step
        nextZ == z + step
        nextValue == gyroidFunction(nextY, nextX, nextZ, lp.size, lp.offset)
    IN  IF ~withinRadius(y, z, lp) THEN <<>>
        ELSE IF ~(Abs(value) < gyroidThreshold(lp)) THEN <<>>
        ELSE << Sphere(Vec(x, y, z), lp.thickness * 4) >>
             \o (IF ix < xSteps(lp) - 1 /\ iy < nyz - 1 /\ iz < nyz - 1
                    /\ Abs(nextValue) < gyroidThreshold(lp)
                 THEN createStrut(Vec(x, y, z), Vec(nextX, nextY, nextZ), lp.thickness * 2)
                 ELSE <<>>)

\* iterations of for (let i = -n / 2; i <= n / 2; i++)
stationCount(n) == IF n < 0 THEN 0 ELSE n + 1

\* i * spacing at the k-th iteration of that loop, k = 0, 1, ...: i = k - n / 2
stationX(k, n, spacing) == ((2 * k - n) * spacing) \div 2

\* Math.floor(length / spacing) - 1 with spacing = size * 2
numStruts(lp) == (lp.length \div (lp.size * 2)) - 1

\* generateVerticalLatticeMesh, the k-th station
verticalStation(lp, k) ==
    LET spacing == lp.size * 2
        n       == numStruts(lp)
        x       == stationX(k, n, spacing)
        nextX   == x + spacing
    IN  IF ~withinLength(x, lp) THEN <<>>
        ELSE << Cylinder(Vec(x, 0, 0), lp.thickness * 10) >>
             \o (IF k < n /\ 2 * nextX <= lp.length
                 THEN << Cylinder(Vec(x + spacing \div 2, 0, 0), lp.thickness * 8) >>
                 ELSE <<>>)

(***************************************************************************)
(* lattice-generators.ts: the vertical variants                            *)
(*                                                                         *)
(* A hole is the cylinder mesh handed to CSG.subtract; its rotation is not *)
(* kept.  thickness * offset is in tenths of a lattice unit.               *)
(***************************************************************************)
holeRadius(lp) == (lp.thickness * lp.offset) \div 10

\* createSimpleVerticalLattice, the k-th station: a strut mesh added to group
simpleVerticalStation(lp, k) ==
    LET x == stationX(k, numStruts(lp), lp.size * 2)
    IN  IF ~withinLength(x, lp) THEN <<>>
        ELSE << Cylinder(Vec(x, 0, 0), lp.thickness * 10) >>

\* createDirectVerticalLattice, the k-th station: one hole
directVerticalStation(lp, k) ==
    LET x == stationX(k, numStruts(lp), lp.size * 2)
    IN  IF ~withinLength(x, lp) THEN <<>>
        ELSE << Cylinder(Vec(x, 0, 0), lp.thickness * 10) >>

\* const numYZ = Math.floor((radius * 2) / spacing)
numYZ(lp) == (lp.radius * 2) \div (lp.size * 2)

\* createVerticalGridLattice, the k-th station: the holes of the Y loop, then
\* those of the Z loop; Math.abs(y) > radius * 0.9 skips a hole
verticalGridStation(lp, k) ==
    LET spacing == lp.size * 2
        x == stationX(k, numStruts(lp), spacing)
        n == numYZ(lp)
        holeY(j) ==
            LET y == stationX(j, n, spacing)
            IN  IF 10 * Abs(y) > 9 * lp.radius THEN <<>>
                ELSE << Cylinder(Vec(x, y, 0), holeRadius(lp)) >>
        holeZ(j) ==
            LET z == stationX(j, n, spacing)
            IN  IF 10 * Abs(z) > 9 * lp.radius THEN <<>>
                ELSE << Cylinder(Vec(x, 0, z), holeRadius(lp)) >>
    IN  IF ~withinLength(x, lp) THEN <<>>
        ELSE Flatten([j \in 1..stationCount(n) |-> holeY(j - 1)])
             \o Flatten([j \in 1..stationCount(n) |-> holeZ(j - 1)])

\* Math.floor(length / spacing) - 1 with spacing = size * 3
numCross(lp) == (lp.length \div (lp.size * 3)) - 1

\* createVerticalCrossLattice, the k-th station: the vertical hole, the
\* horizontal hole and the four diagonal holes
verticalCrossStation(lp, k) ==
    LET x == stationX(k, numCross(lp), lp.size * 3)
    IN  IF ~withinLength(x, lp) THEN <<>>
        ELSE << Cylinder(Vec(x, 0, 0), holeRadius(lp)),
                Cylinder(Vec(x, 0, 0), holeRadius(lp)) >>
             \o [j \in 1..4 |-> Cylinder(Vec(x, 0, 0), (holeRadius(lp) * 8) \div 10)]

\* const numAngles = 8 (createVerticalDiamondLattice)
numAnglesDiamond == 8

\* Math.floor(length / spacing) - 1 with spacing = size * 2.5
numDiamond(lp) == ((lp.length * 2) \div (lp.size * 5)) - 1

\* createVerticalDiamondLattice, the k-th station: numAngles holes
verticalDiamondStation(lp, k) ==
    LET x == stationX(k, numDiamond(lp), (lp.size * 5) \div 2)
    IN  IF ~withinLength(x, lp) THEN <<>>
        ELSE [j \in 1..numAnglesDiamond |-> Cylinder(Vec(x, 0, 0), holeRadius(lp))]

\* const numAngles = 12 (createVerticalGyroidLattice)
numAnglesGyroid == 12

\* 0.8 + Math.sin(angle) * 0.2 in thousandths, angle = (j / numAngles) * Math.PI * 2
\* + Math.sin(i * 0.5) * 0.2; one row for each i = -1, -0.5, 0, 0.5, 1 and one
\* entry for each j = 0 .. 11
gyroidHoleScale ==
    << <<781, 883, 963, 999, 982, 916, 819, 717, 637, 601, 618, 684>>,
       <<790, 891, 968, 1000, 978, 908, 810, 709, 632, 600, 622, 692>>,
       <<800, 900, 973, 1000, 973, 900, 800, 700, 627, 600, 627, 700>>,
       <<810, 908, 978, 1000, 968, 891, 790, 692, 622, 600, 632, 709>>,
       <<819, 916, 982, 999, 963, 883, 781, 684, 618, 601, 637, 717>> >>

\* createVerticalGyroidLattice, the k-th station: numAngles holes of varying radius
verticalGyroidStation(lp, k) ==
    LET n == numStruts(lp)
        x == stationX(k, n, lp.size * 2)
        twiceI == 2 * k - n
    IN  IF ~withinLength(x, lp) THEN <<>>
        ELSE [j \in 1..numAnglesGyroid |->
                Cylinder(Vec(x, 0, 0), (holeRadius(lp) * gyroidHoleScale[twiceI + 3][j]) \div 1000)]

(***************************************************************************)
(* Calls of the lattice generators.  pc names the generator whose loop is  *)
(* running; cursor counts its finished iterations.  After the call has     *)
(* returned it is made once more with the same arguments.                  *)
(***************************************************************************)

\* at most this many Math.random() draws of one call fall below their threshold
MaxOptional == 1

\* at most this many CSG subtractions of one call throw
MaxFailures == 1

\* materials.ts generateLatticeMesh: the generator the switch selects
generateLatticeMesh(type) ==
    CASE type = "vertical" -> "generateVerticalLatticeMesh"
      [] type = "bcc"      -> "generateBCCLatticeMesh"
      [] type = "fcc"      -> "generateFCCLatticeMesh"
      [] type = "gyroid"   -> "generateGyroidLatticeMesh"
      [] type = "diamond"  -> "generateDiamondLatticeMesh"
      [] type = "octet"    -> "generateOctetLatticeMesh"
      [] OTHER             -> "new THREE.Group"

\* Mutant: "none" is built like the simple vertical lattice
createLatticeGaugeSection_NoneAsSimple(type) ==
    CASE type \in {"none", "simple-vertical"} -> "createSimpleVerticalLattice"
      [] type = "vertical"         -> "createDirectVerticalLattice"
      [] type = "vertical-grid"    -> "createVerticalGridLattice"
      [] type = "vertical-cross"   -> "createVerticalCrossLattice"
      [] type = "vertical-diamond" -> "createVerticalDiamondLattice"
      [] type = "vertical-gyroid"  -> "createVerticalGyroidLattice"
      [] OTHER                     -> "gaugeMesh"

\* lattice-generators.ts createLatticeGaugeSection: the function the chain of
\* tests selects
createLatticeGaugeSection(type) ==
    CASE type = "none"             -> "gaugeMesh"
      [] type = "simple-vertical"  -> "createSimpleVerticalLattice"
      [] type = "vertical"         -> "createDirectVerticalLattice"
      [] type = "vertical-grid"    -> "createVerticalGridLattice"
      [] type = "vertical-cross"   -> "createVerticalCrossLattice"
      [] type = "vertical-diamond" -> "createVerticalDiamondLattice"
      [] type = "vertical-gyroid"  -> "createVerticalGyroidLattice"
      [] OTHER                     -> "gaugeMesh"

LatticeParams(size, thickness, offset, radius, length) ==
    [size |-> size, thickness |-> thickness, offset |-> offset,
     radius |-> radius, length |-> length]

\* Calls of generateLatticeMesh: cell size 2 mm (1 mm for the small gyroid),
\* thickness 0.5 mm, offset 0.5, gauge radius 1 to 2 mm, gauge length 1 to 12 mm
MeshCalls ==
    { [type |-> "vertical", lp |-> LatticeParams(48, 12, 50, 36, l)] : l \in {48, 96, 288} }
    \cup { [type |-> "bcc", lp |-> LatticeParams(48, 12, 50, 36, 96)] }
    \cup { [type |-> "fcc", lp |-> LatticeParams(48, 12, 50, 24, 96)],
           [type |-> "fcc", lp |-> LatticeParams(48, 12, 50, 36, 48)] }
    \cup { [type |-> "gyroid", lp |-> LatticeParams(s, 12, 50, (s * 3) \div 4, s)] : s \in {24, 48} }
    \cup { [type |-> "diamond", lp |-> LatticeParams(48, 12, 50, 24, 48)] }
    \cup { [type |-> "octet", lp |-> LatticeParams(48, 12, 50, r, 48)] : r \in {36, 48} }
    \cup { [type |-> "none", lp |-> LatticeParams(48, 12, 50, 36, 96)] }

\* Calls of createLatticeGaugeSection: cell size 2 mm, thickness 0.5 mm,
\* offset 0.5, gauge radius 2 and 3.5 mm, gauge length 8 and 12 mm
SectionCalls ==
    { [type |-> t, lp |-> LatticeParams(48, 12, 50, r, l)] :
        t \in VerticalLatticeType, r \in {48, 84}, l \in {192, 288} }

LatticeInit ==
    /\ \/ \E call \in MeshCalls :
            /\ latticeType = call.type
            /\ latticeParams = call.lp
            /\ pc = generateLatticeMesh(call.type)
       \/ \E call \in SectionCalls :
            /\ latticeType = call.type
            /\ latticeParams = call.lp
            /\ pc = createLatticeGaugeSection(call.type)
    /\ reduction = Idle
    /\ cursor = 0
    /\ primitives = <<>>
    /\ previous = <<>>
    /\ gaugeGeometry = <<>>
    /\ included = 0
    /\ combinedMesh = <<>>
    /\ resultMesh = Idle
    /\ thrown = "none"
    /\ failedOps = {}
    /\ ViewerIdle
    /\ SpecimenIdle

\* iterations of the outer loop (of the nested loops) of generator f
iterations(f, lp) ==
    CASE f \in {"generateBCCLatticeMesh", "generateFCCLatticeMesh",
                "generateDiamondLatticeMesh", "generateOctetLatticeMesh"} -> cellCount(lp)
      [] f = "generateGyroidLatticeMesh" -> sampleCount(lp)
      [] f \in {"generateVerticalLatticeMesh", "createSimpleVerticalLattice",
                "createDirectVerticalLattice", "createVerticalGridLattice",
                "createVerticalGyroidLattice"} -> stationCount(numStruts(lp))
      [] f = "createVerticalCrossLattice" -> stationCount(numCross(lp))
      [] f = "createVerticalDiamondLattice" -> stationCount(numDiamond(lp))
      [] OTHER -> 0

Finished == cursor = iterations(pc, latticeParams)

\* one loop iteration of generator f is due
Running(f) == pc = f /\ cursor < iterations(f, latticeParams)

\* latticeGroup.add of the iteration's meshes
AddToGroup(meshes) ==
    /\ primitives' = primitives \o meshes
    /\ cursor' = cursor + 1
    /\ UNCHANGED <<pc, params, standard, profile, validationResult,
                   latticeType, latticeParams, reduction, previous, gaugeGeometry,
                   combinedMesh, resultMesh, thrown, failedOps,
                   issued, effects, latticeGaugeMesh, isLoading, error>>

\* the outcomes of the draws made at the given sites of one iteration
Draws(sites) ==
    { drawn \in SUBSET sites : included + Cardinality(drawn) <= MaxOptional }

\* Mutant: a subtraction that throws loses the geometry carved before it
SubtractHoles_LosesGeometry(holes) ==
    /\ \E failed \in SUBSET (1..Len(holes)) :
          /\ Cardinality(failedOps) + Cardinality(failed) <= MaxFailures
          /\ gaugeGeometry' = IF failed = {} THEN gaugeGeometry \o holes ELSE <<>>
          /\ failedOps' = failedOps \cup { Len(primitives) + j - 1 : j \in failed }
    /\ primitives' = primitives \o holes
    /\ cursor' = cursor + 1
    /\ UNCHANGED <<pc, params, standard, profile, validationResult,
                   latticeType, latticeParams, reduction, previous, included,
                   combinedMesh, resultMesh, thrown,
                   issued, effects, latticeGaugeMesh, isLoading, error>>

\* try { CSG subtract; gaugeMesh.geometry = result } catch { continue } for each
\* hole of the iteration: a subtraction that throws leaves the geometry as it was
SubtractHoles(holes) ==
    /\ \E failed \in SUBSET (1..Len(holes)) :
          /\ Cardinality(failedOps) + Cardinality(failed) <= MaxFailures
          /\ gaugeGeometry' = gaugeGeometry
                \o Flatten([j \in 1..Len(holes) |-> IF j \in failed THEN <<>> ELSE << holes[j] >>])
          /\ failedOps' = failedOps \cup { Len(primitives) + j - 1 : j \in failed }
    /\ primitives' = primitives \o holes
    /\ cursor' = cursor + 1
    /\ UNCHANGED <<pc, params, standard, profile, validationResult,
                   latticeType, latticeParams, reduction, previous, included,
                   combinedMesh, resultMesh, thrown,
                   issued, effects, latticeGaugeMesh, isLoading, error>>

VerticalStep ==
    /\ Running("generateVerticalLatticeMesh")
    /\ AddToGroup(verticalStation(latticeParams, cursor))
    /\ UNCHANGED included

BCCStep ==
    /\ Running("generateBCCLatticeMesh")
    /\ \E drawn \in Draws(bccDraws(latticeParams, cursor)) :
          /\ AddToGroup(bccCell(latticeParams, cursor, [n \in 1..5 |-> n \in drawn]))
          /\ included' = included + Cardinality(drawn)

FCCStep ==
    /\ Running("generateFCCLatticeMesh")
    /\ \E drawn \in Draws(fccDraws(latticeParams, cursor)) :
          /\ AddToGroup(fccCell(latticeParams, cursor, [n \in 1..Len(fccPairs) |-> n \in drawn]))
          /\ included' = included + Cardinality(drawn)

GyroidStep ==
    /\ Running("generateGyroidLatticeMesh")
    /\ AddToGroup(gyroidSample(latticeParams, cursor))
    /\ UNCHANGED included

DiamondStep ==
    /\ Running("generateDiamondLatticeMesh")
    /\ \E drawn \in Draws(diamondDraws(latticeParams, cursor)) :
          /\ AddToGroup(diamondCell(latticeParams, cursor,
                                    [n \in 1..Len(diamondBonds) |-> n \in drawn]))
          /\ included' = included + Cardinality(drawn)

OctetStep ==
    /\ Running("generateOctetLatticeMesh")
    /\ \E drawn \in Draws(octetDraws(latticeParams, cursor)) :
          /\ AddToGroup(octetCell(latticeParams, cursor,
                                  [n \in 1..(Len(cubeEdges) + Len(diagonals)) |-> n \in drawn]))
          /\ included' = included + Cardinality(drawn)

SimpleVerticalStep ==
    /\ Running("createSimpleVerticalLattice")
    /\ AddToGroup(simpleVerticalStation(latticeParams, cursor))
    /\ UNCHANGED included

DirectVerticalStep ==
    /\ Running("createDirectVerticalLattice")
    /\ SubtractHoles(directVerticalStation(latticeParams, cursor))

VerticalGridStep ==
    /\ Running("createVerticalGridLattice")
    /\ SubtractHoles(verticalGridStation(latticeParams, cursor))

VerticalCrossStep ==
    /\ Running("createVerticalCrossLattice")
    /\ SubtractHoles(verticalCrossStation(latticeParams, cursor))

VerticalDiamondStep ==
    /\ Running("createVerticalDiamondLattice")
    /\ SubtractHoles(verticalDiamondStation(latticeParams, cursor))

VerticalGyroidStep ==
    /\ Running("createVerticalGyroidLattice")
    /\ SubtractHoles(verticalGyroidStation(latticeParams, cursor))

\* the call has returned; the same call is made again
Regenerate ==
    /\ Finished
    /\ previous = <<>>
    /\ previous' = << primitives >>
    /\ primitives' = <<>>
    /\ gaugeGeometry' = <<>>
    /\ included' = 0
    /\ failedOps' = {}
    /\ cursor' = 0
    /\ UNCHANGED <<pc, params, standard, profile, validationResult,
                   latticeType, latticeParams, reduction,
                   combinedMesh, resultMesh, thrown,
                   issued, effects, latticeGaugeMesh, isLoading, error>>

LatticeNext ==
    \/ VerticalStep
    \/ BCCStep
    \/ FCCStep
    \/ GyroidStep
    \/ DiamondStep
    \/ OctetStep
    \/ SimpleVerticalStep
    \/ DirectVerticalStep
    \/ VerticalGridStep
    \/ VerticalCrossStep
    \/ VerticalDiamondStep
    \/ VerticalGyroidStep
    \/ Regenerate

SpecLattice == LatticeInit /\ [][LatticeNext]_vars

(***************************************************************************)
(* Claims about the lattice generators (SpecLattice).                      *)
(***************************************************************************)

\* the point lies in the gauge cylinder: -length/2 <= x <= length/2 and
\* sqrt(y^2 + z^2) <= radius
InsideCylinder(point, lp) ==
    /\ -lp.length <= 2 * point[1]
    /\ 2 * point[1] <= lp.length
    /\ point[2] * point[2] + point[3] * point[3] <= lp.radius * lp.radius

\* every primitive emitted so far, by this call and by the preceding one
Emitted == primitives \o Flatten(previous)

Spheres(meshes) == SelectSeq(meshes, LAMBDA m : m.kind = "sphere")

\* C8: every node sphere emitted by a lattice generator, in every family, has its
\* centre inside the gauge cylinder, and every hole or strut station of the
\* vertical variants has -length/2 <= x <= length/2.
C8_NodesInsideCylinder ==
    \A i \in 1..Len(Emitted) :
        /\ Emitted[i].kind = "sphere" => InsideCylinder(Emitted[i].a, latticeParams)
        /\ Emitted[i].kind = "cylinder" =>
              /\ -latticeParams.length <= 2 * Emitted[i].a[1]
              /\ 2 * Emitted[i].a[1] <= latticeParams.length

\* an octet call has returned: some of its corners became nodes and the corners
\* outside the cylinder did not
C8_Witness ==
    /\ Finished
    /\ latticeType = "octet"
    /\ latticeParams.radius = latticeParams.size
    /\ Len(Spheres(primitives)) > 0
    /\ Len(Spheres(primitives)) < 8 * cellCount(latticeParams)

\* C9: every strut emitted by a lattice generator has both endpoints inside the
\* gauge cylinder; this covers the body-centred, face-centred, diamond and octet
\* families and the gyroid strut to the neighbour (x+step, y+step, z+step).
C9_StrutEndpointsInside ==
    \A i \in 1..Len(Emitted) :
        Emitted[i].kind = "strut" =>
            /\ InsideCylinder(Emitted[i].a, latticeParams)
            /\ InsideCylinder(Emitted[i].b, latticeParams)

\* C10: two calls with identical lattice type and identical LatticeParams return
\* identical lists of primitives.
C10_Deterministic ==
    (Finished /\ previous # <<>>) => primitives = previous[1]

(***************************************************************************)
(* createLatticeGaugeSection: the gauge cylinder with the lattice carved    *)
(* out (SpecSection).  materials.ts generates the lattice primitives,       *)
(* unions them and subtracts the union; lattice-generators.ts subtracts     *)
(* every hole as it is generated.                                           *)
(***************************************************************************)

\* const maxMeshes = 50
maxMeshes == 50

\* const step = Math.max(1, Math.floor(latticeMeshes.length / maxMeshes))
step(n) == Max(1, n \div maxMeshes)

\* materials.ts createLatticeGaugeSection: "none" returns the gauge mesh, every
\* other type goes to generateLatticeMesh
materialsCreateLatticeGaugeSection(type) ==
    IF type = "none" THEN "return gaugeMesh" ELSE generateLatticeMesh(type)

\* the generators of materials.ts
MeshGenerators ==
    {"generateVerticalLatticeMesh", "generateBCCLatticeMesh", "generateFCCLatticeMesh",
     "generateGyroidLatticeMesh", "generateDiamondLatticeMesh", "generateOctetLatticeMesh"}

\* the functions of lattice-generators.ts that build the section
SectionFunctions ==
    {"createSimpleVerticalLattice", "createDirectVerticalLattice",
     "createVerticalGridLattice", "createVerticalCrossLattice",
     "createVerticalDiamondLattice", "createVerticalGyroidLattice"}

\* a THREE.Mesh of the gauge section: the cylinder it started from, the
\* primitives subtracted from its geometry in order, the meshes attached to it
\* and its material's wireframe flag
Mesh(lp, geometry, children, wireframe) ==
    [radius |-> lp.radius, length |-> lp.length, geometry |-> geometry,
     children |-> children, wireframe |-> wireframe]

\* Mutant: the catch block leaves out wireframe: true
fallbackMesh_Solid(lp) == Mesh(lp, <<>>, <<>>, FALSE)

\* the catch block: a plain cylinder whose material has wireframe: true
fallbackMesh(lp) == Mesh(lp, <<>>, <<>>, TRUE)

\* Calls of materials.ts createLatticeGaugeSection: the vertical lattice with
\* cell size 0.5 mm in a 30 mm gauge (59 meshes) and with cell size 2 mm in
\* gauges of 1 to 4 mm (0, 1 and 3 meshes), a body-centred lattice, no lattice
CombineCalls ==
    { [type |-> "vertical", lp |-> LatticeParams(12, 12, 50, 36, 720)] }
    \cup { [type |-> "vertical", lp |-> LatticeParams(48, 12, 50, 36, l)] : l \in {24, 48, 96} }
    \cup { [type |-> "bcc", lp |-> LatticeParams(48, 12, 50, 36, 96)] }
    \cup { [type |-> "none", lp |-> LatticeParams(48, 12, 50, 36, 96)] }

SectionInit ==
    /\ \/ \E call \in CombineCalls :
            /\ latticeType = call.type
            /\ latticeParams = call.lp
            /\ pc = materialsCreateLatticeGaugeSection(call.type)
       \/ \E call \in SectionCalls :
            /\ latticeType = call.type
            /\ latticeParams = call.lp
            /\ pc = createLatticeGaugeSection(call.type)
    /\ reduction = Idle
    /\ cursor = 0
    /\ primitives = <<>>
    /\ previous = <<>>
    /\ gaugeGeometry = <<>>
    /\ included = 0
    /\ combinedMesh = <<>>
    /\ resultMesh = Idle
    /\ thrown = "none"
    /\ failedOps = {}
    /\ ViewerIdle
    /\ SpecimenIdle

\* a statement of the generation outside the inner try blocks throws: the outer
\* catch returns the fallback mesh
GenerationThrows ==
    /\ pc \in MeshGenerators \cup SectionFunctions
    /\ thrown' = "generation"
    /\ resultMesh' = fallbackMesh(latticeParams)
    /\ pc' = "catch"
    /\ UNCHANGED <<params, standard, profile, validationResult,
                   latticeType, latticeParams, reduction, cursor, primitives, previous,
                   gaugeGeometry, included, combinedMesh, failedOps,
                   issued, effects, latticeGaugeMesh, isLoading, error>>

\* materials.ts: if (latticeType === "none") return gaugeMesh
ReturnSolidGauge ==
    /\ pc = "return gaugeMesh"
    /\ resultMesh' = Mesh(latticeParams, <<>>, <<>>, FALSE)
    /\ pc' = "return"
    /\ UNCHANGED <<params, standard, profile, validationResult,
                   latticeType, latticeParams, reduction, cursor, primitives, previous,
                   gaugeGeometry, included, combinedMesh, thrown, failedOps,
                   issued, effects, latticeGaugeMesh, isLoading, error>>

\* materials.ts: latticeGroup.traverse collects the meshes; none: return
\* gaugeMesh; otherwise combinedMesh starts as latticeMeshes[0] and the union
\* loop starts at i = step (with one mesh there is nothing to union)
ExtractMeshes ==
    /\ pc \in MeshGenerators \cup {"new THREE.Group"}
    /\ Finished
    /\ IF Len(primitives) = 0
       THEN /\ resultMesh' = Mesh(latticeParams, <<>>, <<>>, FALSE)
            /\ pc' = "return"
            /\ UNCHANGED <<combinedMesh, cursor>>
       ELSE /\ combinedMesh' = << 0 >>
            /\ cursor' = IF Len(primitives) = 1 THEN 1 ELSE step(Len(primitives))
            /\ pc' = "union"
            /\ UNCHANGED resultMesh
    /\ UNCHANGED <<params, standard, profile, validationResult,
                   latticeType, latticeParams, reduction, primitives, previous,
                   gaugeGeometry, included, thrown, failedOps,
                   issued, effects, latticeGaugeMesh, isLoading, error>>

\* materials.ts: one iteration of for (i = step; i < length; i += step):
\* try { combinedMesh = union(combinedMesh, latticeMeshes[i]) } catch { continue }
UnionStep ==
    /\ pc = "union"
    /\ cursor < Len(primitives)
    /\ \/ /\ combinedMesh' = Append(combinedMesh, cursor)
          /\ UNCHANGED failedOps
       \/ /\ Cardinality(failedOps) < MaxFailures
          /\ failedOps' = failedOps \cup {cursor}
          /\ UNCHANGED combinedMesh
    /\ cursor' = cursor + step(Len(primitives))
    /\ UNCHANGED <<pc, params, standard, profile, validationResult,
                   latticeType, latticeParams, reduction, primitives, previous,
                   gaugeGeometry, included, resultMesh, thrown,
                   issued, effects, latticeGaugeMesh, isLoading, error>>

\* materials.ts: csgGauge.subtract(csgLattice) after the loop, inside the outer
\* try only: the result is returned, or the exception reaches the outer catch
SubtractLattice ==
    /\ pc = "union"
    /\ cursor >= Len(primitives)
    /\ \/ /\ resultMesh' = Mesh(latticeParams,
                                [k \in 1..Len(combinedMesh) |-> primitives[combinedMesh[k] + 1]],
                                <<>>, FALSE)
          /\ pc' = "return"
          /\ UNCHANGED thrown
       \/ /\ Cardinality(failedOps) < MaxFailures
          /\ thrown' = "subtract"
          /\ resultMesh' = fallbackMesh(latticeParams)
          /\ pc' = "catch"
    /\ UNCHANGED <<params, standard, profile, validationResult,
                   latticeType, latticeParams, reduction, cursor, primitives, previous,
                   gaugeGeometry, included, combinedMesh, failedOps,
                   issued, effects, latticeGaugeMesh, isLoading, error>>

\* createSimpleVerticalLattice: group.add(gaugeMesh), group.add(strutMesh) for
\* every strut, and at the end gaugeMesh.add(group); the objects of the scene
\* graph are linked by identity, [object |-> "gaugeMesh"] is the returned mesh
Group(struts) == [children |-> << [object |-> "gaugeMesh"] >> \o struts]

\* lattice-generators.ts: return gaugeMesh, at once for "none" and for a type no
\* test matched, after the loops for the others; createSimpleVerticalLattice
\* attaches the group to the mesh it returns
ReturnGaugeMesh ==
    /\ \/ pc = "gaugeMesh"
       \/ pc \in SectionFunctions /\ Finished
    /\ resultMesh' = Mesh(latticeParams, gaugeGeometry,
                          IF pc = "createSimpleVerticalLattice"
                          THEN << Group(primitives) >>
                          ELSE <<>>,
                          FALSE)
    /\ pc' = "return"
    /\ UNCHANGED <<params, standard, profile, validationResult,
                   latticeType, latticeParams, reduction, cursor, primitives, previous,
                   gaugeGeometry, included, combinedMesh, thrown, failedOps,
                   issued, effects, latticeGaugeMesh, isLoading, error>>

SectionNext ==
    \/ VerticalStep
    \/ BCCStep
    \/ SimpleVerticalStep
    \/ DirectVerticalStep
    \/ VerticalGridStep
    \/ VerticalCrossStep
    \/ VerticalDiamondStep
    \/ VerticalGyroidStep
    \/ GenerationThrows
    \/ ReturnSolidGauge
    \/ ExtractMeshes
    \/ UnionStep
    \/ SubtractLattice
    \/ ReturnGaugeMesh

SpecSection == SectionInit /\ [][SectionNext]_vars

\* C11: in the union-then-subtract mode the stride is ceil(n / 50) and the
\* number of union operations performed in one call is at most 50.
C11_AtMostFiftyUnions ==
    pc \in {"union", "return", "catch"} =>
        /\ (Len(combinedMesh) - 1) + Cardinality(failedOps) <= maxMeshes
        /\ Len(primitives) > maxMeshes =>
              step(Len(primitives)) = Ceil(Len(primitives), maxMeshes)

(***************************************************************************)
(* Claims about the failure handling of createLatticeGaugeSection.         *)
(***************************************************************************)

\* the call being made
call == [type |-> latticeType, lp |-> latticeParams]

\* the call has left createLatticeGaugeSection, by a return or by the catch block
Left == pc \in {"return", "catch"}

\* the lattice types whose primitives lattice-generators.ts subtracts one by one
HoleTypes ==
    {"vertical", "vertical-grid", "vertical-cross", "vertical-diamond", "vertical-gyroid"}

\* the primitives with the given (0-based) indices, in generation order
Chosen(indices) ==
    Flatten([i \in 1..Len(primitives) |->
                IF (i - 1) \in indices THEN << primitives[i] >> ELSE <<>>])

\* the indices the union loop visits, latticeMeshes[0] included
Selected(n) == { i \in 0..(n - 1) : i % step(n) = 0 }

\* C12: in the per-primitive subtraction mode a subtraction that fails for the
\* holes F discards only those holes: the running solid is the cylinder with
\* every other hole subtracted in generation order, the call returns that solid
\* and the failure never takes it to the wireframe fallback.
C12_FailureDiscardsOnlyItsHole ==
    (call \in SectionCalls /\ latticeType \in HoleTypes) =>
        /\ gaugeGeometry = Chosen((0..(Len(primitives) - 1)) \ failedOps)
        /\ pc = "return" =>
              resultMesh = [radius |-> latticeParams.radius, length |-> latticeParams.length,
                            geometry |-> Chosen((0..(Len(primitives) - 1)) \ failedOps),
                            children |-> <<>>, wireframe |-> FALSE]
        /\ pc = "catch" => thrown = "generation"

\* a call returned a solid with holes although one subtraction had failed after
\* the first hole
C12_Witness ==
    /\ call \in SectionCalls
    /\ latticeType \in HoleTypes
    /\ pc = "return"
    /\ failedOps # {}
    /\ 0 \notin failedOps
    /\ Len(resultMesh.geometry) = Len(primitives) - 1

\* C13: in the union-then-subtract mode the failure of one Boolean operation, a
\* union or the final subtraction, loses at most the primitive of that
\* operation: the call returns a solid, not the fallback cylinder, from which
\* every other selected primitive is carved.
C13_FailureLosesOnePrimitive ==
    (call \in CombineCalls /\ Left /\ thrown # "generation" /\ Len(primitives) > 0) =>
        /\ pc = "return"
        /\ resultMesh.wireframe = FALSE
        /\ resultMesh.geometry = Chosen(Selected(Len(primitives)) \ failedOps)

\* C14: an exception raised in the generation or in the Boolean combination
\* does not leave createLatticeGaugeSection: the call returns the plain
\* cylinder of the requested radius and length with wireframe = true; and the
\* returned mesh is wireframe only then.
C14_FallbackIffThrown ==
    Left =>
        /\ resultMesh.wireframe = (thrown # "none")
        /\ (pc = "catch") = (thrown # "none")
        /\ thrown # "none" =>
              resultMesh = [radius |-> latticeParams.radius, length |-> latticeParams.length,
                            geometry |-> <<>>, children |-> <<>>, wireframe |-> TRUE]

\* the final subtraction threw after the unions had succeeded
C14_Witness ==
    /\ pc = "catch"
    /\ thrown = "subtract"
    /\ Len(combinedMesh) > 1
    /\ resultMesh.wireframe

\* C17: for lattice type "none" createLatticeGaugeSection returns the solid
\* cylinder of the given radius and length: no primitive is generated, no
\* Boolean operation is performed and the mesh is not wireframe.
C17_NoneReturnsSolid ==
    latticeType = "none" =>
        /\ primitives = <<>>
        /\ combinedMesh = <<>>
        /\ gaugeGeometry = <<>>
        /\ failedOps = {}
        /\ pc # "catch"
        /\ pc = "return" =>
              resultMesh = [radius |-> latticeParams.radius, length |-> latticeParams.length,
                            geometry |-> <<>>, children |-> <<>>, wireframe |-> FALSE]

\* lattice-generators.ts returned for "none"
C17_Witness ==
    /\ latticeType = "none"
    /\ call \in SectionCalls
    /\ pc = "return"

\* C20: for the families simple-vertical, vertical, vertical-grid,
\* vertical-cross, vertical-diamond and vertical-gyroid exactly one subtraction
\* is attempted per generated primitive, against the running solid, which each
\* successful result replaces.
C20_OneSubtractionPerPrimitive ==
    (call \in SectionCalls /\ latticeType \in HoleTypes \cup {"simple-vertical"}) =>
        /\ Len(gaugeGeometry) + Cardinality(failedOps) = Len(primitives)
        /\ gaugeGeometry = Chosen((0..(Len(primitives) - 1)) \ failedOps)

(***************************************************************************)
(* SpecimenDesigner: the standard and the params held in React state, the  *)
(* profile and the validation result computed by every render               *)
(* (SpecDesigner).                                                          *)
(***************************************************************************)

\* getStandardTemplate(standard, "circular"); lengths in hundredths of a
\* millimetre, the taper angle in tenths of a degree
getStandardTemplate(std, type) ==
    LET defaultParams == [transitionType |-> "spline", useTaperedTransition |-> FALSE,
                          taperAngle |-> 80, material |-> "steel", latticeType |-> "none",
                          latticeSize |-> 200, latticeThickness |-> 50, latticeOffset |-> 50]
        dimensions ==
            CASE std = "E466" -> [gripLength |-> 5000, gripDiameter |-> 1500, gaugeLength |-> 2500,
                                  gaugeDiameter |-> 800, filletRadius |-> 6000]
              [] std = "E606" -> [gripLength |-> 4500, gripDiameter |-> 1600, gaugeLength |-> 1500,
                                  gaugeDiameter |-> 635, filletRadius |-> 7000]
              [] std = "E8"   -> [gripLength |-> 6000, gripDiameter |-> 2000, gaugeLength |-> 5000,
                                  gaugeDiameter |-> 1250, filletRadius |-> 5000]
              [] OTHER        -> [gripLength |-> 5000, gripDiameter |-> 1500, gaugeLength |-> 3000,
                                  gaugeDiameter |-> 800, filletRadius |-> 6000]
    IN  [f \in DOMAIN defaultParams \cup DOMAIN dimensions |->
            IF f \in DOMAIN dimensions THEN dimensions[f] ELSE defaultParams[f]]

\* Mutant: the fields of the current params win over those of the partial
Spread_KeepsCurrent(specimenParams, partial) ==
    [f \in DOMAIN specimenParams \cup DOMAIN partial |->
        IF f \in DOMAIN specimenParams THEN specimenParams[f] ELSE partial[f]]

\* { ...specimenParams, ...partial }
Spread(specimenParams, partial) ==
    [f \in DOMAIN specimenParams \cup DOMAIN partial |->
        IF f \in DOMAIN partial THEN partial[f] ELSE specimenParams[f]]

\* Mutant: the profile of params that fail the validation is withheld
Render_Blocking(specimenParams, std) ==
    LET validation == validateSpecimen("circular", specimenParams, std)
        specimenProfile == generateSpecimenProfile("circular", specimenParams)
    IN  [specimenProfile  |-> IF validation.valid THEN specimenProfile
                              ELSE [specimenProfile EXCEPT !.points = <<>>],
         validationResult |-> validation]

\* one render: specimenProfile and validationResult are computed from the state
\* and the profile is passed to AnalysisPanel and SpecimenViewer
Render(specimenParams, std) ==
    [specimenProfile  |-> generateSpecimenProfile("circular", specimenParams),
     validationResult |-> validateSpecimen("circular", specimenParams, std)]

\* the useState initial values
DesignerDefaults ==
    [gripLength |-> 5000, gripDiameter |-> 1500, gaugeLength |-> 3000, gaugeDiameter |-> 700,
     filletRadius |-> 7000, transitionType |-> "spline", useTaperedTransition |-> FALSE,
     taperAngle |-> 80, material |-> "steel", latticeType |-> "none",
     latticeSize |-> 200, latticeThickness |-> 50, latticeOffset |-> 50]

\* The Partial<SpecimenParams> the form passes to onChange: a number typed into
\* an input, the taper switch and slider, the transition type, the lattice type,
\* the material, and the template of the "reset to standard" button
FormChanges(std) ==
    { ("gaugeDiameter" :> v) : v \in {0, 1000} }
    \cup { ("gripDiameter" :> v) : v \in {800} }
    \cup { ("filletRadius" :> v) : v \in {0} }
    \cup { ("useTaperedTransition" :> b) : b \in BOOLEAN }
    \cup { ("taperAngle" :> a) : a \in {70, 100} }
    \cup { ("transitionType" :> "conical") }
    \cup { ("latticeType" :> "vertical") }
    \cup { ("material" :> "aluminum") }
    \cup { getStandardTemplate(std, "circular") }

DesignerInit ==
    /\ pc = "rendered"
    /\ standard = "E606"
    /\ params = DesignerDefaults
    /\ profile = Render(DesignerDefaults, "E606").specimenProfile
    /\ validationResult = Render(DesignerDefaults, "E606").validationResult
    /\ LatticeIdle

\* setStandard(newStandard); setSpecimenParams({...specimenParams, ...template});
\* and the render that follows
handleStandardChange ==
    \E newStandard \in ASTMStandard :
        LET template == getStandardTemplate(newStandard, "circular")
            next == Spread(params, template)
        IN  /\ standard' = newStandard
            /\ params' = next
            /\ profile' = Render(next, newStandard).specimenProfile
            /\ validationResult' = Render(next, newStandard).validationResult
            /\ UNCHANGED <<pc, latticeType, latticeParams, reduction, cursor, primitives,
                           previous, gaugeGeometry, included, combinedMesh, resultMesh,
                           thrown, failedOps, issued, effects, latticeGaugeMesh, isLoading, error>>

\* setSpecimenParams({...specimenParams, ...params}) and the render that follows
handleParamsChange ==
    \E change \in FormChanges(standard) :
        LET next == Spread(params, change)
        IN  /\ params' = next
            /\ profile' = Render(next, standard).specimenProfile
            /\ validationResult' = Render(next, standard).validationResult
            /\ UNCHANGED <<pc, standard, latticeType, latticeParams, reduction, cursor,
                           primitives, previous, gaugeGeometry, included, combinedMesh,
                           resultMesh, thrown, failedOps, issued, effects, latticeGaugeMesh,
                           isLoading, error>>

DesignerNext ==
    \/ handleStandardChange
    \/ handleParamsChange

SpecDesigner == DesignerInit /\ [][DesignerNext]_vars

\* C16: validation is advisory: in every state of the designer the params are
\* those the handlers set, and the profile handed to the viewer and the
\* analysis panel is the one generated from them, whether validateSpecimen
\* returned valid or invalid.
C16_ValidationAdvisory ==
    /\ profile = generateSpecimenProfile("circular", params)
    /\ validationResult = validateSpecimen("circular", params, standard)
    /\ Len(profile.points) >= 10
    /\ DOMAIN params = DOMAIN DesignerDefaults

\* the designer shows the warning and passes on the profile of the invalid params
C16_Witness ==
    /\ pc = "rendered"
    /\ params # DesignerDefaults
    /\ ~validationResult.valid
    /\ profile = generateSpecimenProfile("circular", params)
    /\ Len(profile.points) >= 10

(***************************************************************************)
(* CircularSpecimen: the effect that regenerates the lattice gauge mesh    *)
(* 100 ms after its dependencies changed (SpecViewer).  A render commits    *)
(* the new profile; React runs the clean-up of the previous effect and the  *)
(* new effect afterwards, before the next render; a timer that is due may   *)
(* fire before or after that.                                               *)
(***************************************************************************)

\* renders with changed dependencies after the mount
MaxRenders == 3

\* the dependencies of the effect: the lattice and gauge fields of the profile
ViewerProfiles ==
    { [latticeType |-> t, latticeSize |-> s, latticeThickness |-> 50, latticeOffset |-> 50,
       gaugeDiameter |-> 700, gaugeLength |-> 3000] :
      t \in {"none", "vertical", "vertical-grid"}, s \in {100, 200} }

\* the mesh createLatticeGaugeSection builds for the profile of the closure
latticeMeshOf(closure) ==
    [latticeType |-> closure.latticeType,
     params |-> LatticeParams(closure.latticeSize, closure.latticeThickness,
                              closure.latticeOffset, closure.gaugeDiameter \div 2,
                              closure.gaugeLength)]

\* the effect of the committed render has not run yet
EffectPending ==
    IF effects = <<>> THEN TRUE ELSE effects[Len(effects)].profile # issued

ViewerInit ==
    /\ pc = "mounted"
    /\ issued \in ViewerProfiles
    /\ effects = <<>>
    /\ latticeGaugeMesh = <<>>
    /\ isLoading = FALSE
    /\ error = "null"
    /\ latticeType = Idle
    /\ latticeParams = Idle
    /\ reduction = Idle
    /\ cursor = Idle
    /\ primitives = Idle
    /\ previous = Idle
    /\ gaugeGeometry = Idle
    /\ included = Idle
    /\ combinedMesh = Idle
    /\ resultMesh = Idle
    /\ thrown = Idle
    /\ failedOps = Idle
    /\ SpecimenIdle

\* the parent renders the viewer with a profile whose dependencies differ
RenderProfile ==
    /\ ~EffectPending
    /\ Len(effects) <= MaxRenders
    /\ \E next \in ViewerProfiles \ {issued} : issued' = next
    /\ UNCHANGED <<pc, params, standard, profile, validationResult,
                   latticeType, latticeParams, reduction, cursor, primitives, previous,
                   gaugeGeometry, included, combinedMesh, resultMesh, thrown, failedOps,
                   effects, latticeGaugeMesh, isLoading, error>>

\* Mutant: the clean-up does not clear the timer and leaves isMounted set
cleanup_Nothing(effect) == effect

\* return () => { isMounted = false; clearTimeout(timeoutId) }
cleanup(effect) ==
    [effect EXCEPT !.isMounted = FALSE,
                   !.timeout = IF effect.timeout = "pending" THEN "cleared" ELSE effect.timeout]

\* React runs the clean-up of the previous effect and then the effect of the
\* committed render: let isMounted = true; setTimeout(generateLattice, 100)
RunEffect ==
    /\ EffectPending
    /\ effects' = Append([k \in 1..Len(effects) |->
                             IF k = Len(effects) THEN cleanup(effects[k]) ELSE effects[k]],
                         [profile |-> issued, isMounted |-> TRUE, timeout |-> "pending"])
    /\ UNCHANGED <<pc, params, standard, profile, validationResult,
                   latticeType, latticeParams, reduction, cursor, primitives, previous,
                   gaugeGeometry, included, combinedMesh, resultMesh, thrown, failedOps,
                   issued, latticeGaugeMesh, isLoading, error>>

\* Mutant: createLatticeGaugeSection lets the failure of a generator escape
createLatticeGaugeSectionThrows_Uncaught(generatorFails) == generatorFails

\* the whole body of createLatticeGaugeSection is inside try; the catch block
\* returns the fallback mesh, so the call never throws to its caller
createLatticeGaugeSectionThrows(generatorFails) == FALSE

\* the timer of an effect fires: generateLattice runs to its end (it awaits
\* nothing) with the profile of its closure; a generator may fail inside
\* createLatticeGaugeSection
TimerFires ==
    \E k \in 1..Len(effects), generatorFails \in BOOLEAN :
        /\ effects[k].timeout = "pending"
        /\ effects' = [effects EXCEPT ![k].timeout = "fired"]
        /\ IF ~effects[k].isMounted
           THEN UNCHANGED <<latticeGaugeMesh, isLoading, error>>
           ELSE IF effects[k].profile.latticeType = "none"
           THEN /\ latticeGaugeMesh' = <<>>
                /\ isLoading' = FALSE
                /\ error' = "null"
           ELSE IF createLatticeGaugeSectionThrows(generatorFails)
           THEN /\ error' = "Failed to create lattice structure"
                /\ isLoading' = FALSE
                /\ UNCHANGED latticeGaugeMesh
           ELSE /\ latticeGaugeMesh' = << latticeMeshOf(effects[k].profile) >>
                /\ isLoading' = FALSE
                /\ error' = "null"
        /\ UNCHANGED <<pc, params, standard, profile, validationResult,
                       latticeType, latticeParams, reduction, cursor, primitives, previous,
                       gaugeGeometry, included, combinedMesh, resultMesh, thrown, failedOps,
                       issued>>

ViewerNext ==
    \/ RenderProfile
    \/ RunEffect
    \/ TimerFires

SpecViewer == ViewerInit /\ [][ViewerNext]_vars

\* React flushes the passive effects of a committed render, and a timer that is
\* not cleared fires after its 100 ms
SpecViewerFair == SpecViewer /\ WF_vars(RunEffect) /\ WF_vars(TimerFires)

\* the value generateLattice stores for the profile of a request
appliedMesh(request) ==
    IF request.latticeType = "none" THEN <<>> ELSE << latticeMeshOf(request) >>

StationTypes == HoleTypes \cup {"simple-vertical"}

\* C22: every vertical variant places its struts or holes at axial stations
\* whose consecutive spacing is exactly 2 x size, and no random draw decides
\* which stations or features are emitted.
C22_StationsTwoCellsApart ==
    (call \in SectionCalls /\ latticeType \in StationTypes) =>
        /\ included = 0
        /\ \A i \in 1..(Len(primitives) - 1) :
              \/ primitives[i + 1].a[1] = primitives[i].a[1]
              \/ primitives[i + 1].a[1] - primitives[i].a[1] = 2 * latticeParams.size

\* C24: for simple-vertical and vertical the feature count used by
\* calculateLatticeVolumeReduction equals the number of struts or holes the
\* generator places for the same size and length.
C24_CountMatchesGenerator ==
    (call \in SectionCalls /\ pc = "return"
        /\ latticeType \in {"simple-vertical", "vertical"}) =>
        LET estimate == calculateLatticeVolumeReduction(latticeType, latticeParams)
            featureVolume == latticeParams.thickness * latticeParams.thickness
                                * (latticeParams.radius * 2)
            c == IF latticeType = "simple-vertical" THEN 5 ELSE 8
        IN  estimate.num = Len(primitives) * featureVolume * c

\* the viewer shows the result for the profile: nothing is loading, no error
\* is shown and the stored mesh is the one generated from the profile
Settled(viewerProfile) ==
    /\ isLoading = FALSE
    /\ error = "null"
    /\ latticeGaugeMesh = appliedMesh(viewerProfile)

\* C26: once the lattice parameters stop changing the viewer eventually stays
\* in a state where isLoading is false, error is null and latticeGaugeMesh is
\* the mesh generated from the latest parameters (null for "none"); and the
\* error state is never entered.
C26_EventuallySettled ==
    /\ [](error = "null")
    /\ \A viewerProfile \in ViewerProfiles :
          <>[](issued = viewerProfile) => <>[](effects # <<>> /\ Settled(viewerProfile))

\* the parameters changed, the generation for the latest ones has run and the
\* viewer shows its lattice mesh
C26_Witness ==
    /\ Len(effects) >= 2
    /\ effects[Len(effects)].profile = issued
    /\ effects[Len(effects)].timeout = "fired"
    /\ issued.latticeType # "none"
    /\ Settled(issued)

(***************************************************************************)
(* CircularSpecimen of the three-canvas copy in specimen-designer.tsx: the *)
(* effect builds the lattice gauge mesh at once, and its dependencies       *)
(* include materialProps, the object getMaterialProperties(material)        *)
(* returns anew on every render (SpecCanvas).                               *)
(***************************************************************************)

\* the effect of the committed render has not run yet: one of its dependencies,
\* the lattice and gauge fields of the profile, the material, and the
\* materialProps object of that render (compared by identity: the number of the
\* render that made it), differs from the one of the last run
CanvasEffectPending ==
    IF effects = <<>> THEN TRUE ELSE effects[Len(effects)] # issued

CanvasInit ==
    /\ pc = "canvas"
    /\ \E viewerProfile \in ViewerProfiles, material \in {"steel", "aluminum"} :
          /\ issued = [profile |-> viewerProfile, material |-> material,
                       materialProps |-> 0]
          /\ isLoading = (viewerProfile.latticeType # "none")
    /\ effects = <<>>
    /\ latticeGaugeMesh = <<>>
    /\ error = "null"
    /\ latticeType = Idle
    /\ latticeParams = Idle
    /\ reduction = Idle
    /\ cursor = Idle
    /\ primitives = Idle
    /\ previous = Idle
    /\ gaugeGeometry = Idle
    /\ included = Idle
    /\ combinedMesh = Idle
    /\ resultMesh = Idle
    /\ thrown = Idle
    /\ failedOps = Idle
    /\ SpecimenIdle

\* the parent renders the viewer with another profile or material
CanvasRender ==
    /\ ~CanvasEffectPending
    /\ issued.materialProps < MaxRenders
    /\ \E viewerProfile \in ViewerProfiles, material \in {"steel", "aluminum"} :
          /\ viewerProfile # issued.profile \/ material # issued.material
          /\ issued' = [profile |-> viewerProfile, material |-> material,
                        materialProps |-> issued.materialProps + 1]
    /\ UNCHANGED <<pc, params, standard, profile, validationResult,
                   latticeType, latticeParams, reduction, cursor, primitives, previous,
                   gaugeGeometry, included, combinedMesh, resultMesh, thrown, failedOps,
                   effects, latticeGaugeMesh, isLoading, error>>

\* the effect body: "none" clears the mesh; otherwise createLatticeGaugeSection
\* is called and the new mesh object is stored. A state change made by the
\* effect renders the component again, which calls
\* getMaterialProperties(material) again
CanvasRunEffect ==
    /\ CanvasEffectPending
    /\ Len(effects) <= MaxRenders + 1
    /\ LET mesh == IF issued.profile.latticeType = "none"
                   THEN <<>>
                   ELSE << [mesh |-> latticeMeshOf(issued.profile),
                            object |-> Len(effects) + 1] >>
       IN  /\ latticeGaugeMesh' = mesh
           /\ isLoading' = FALSE
           /\ error' = "null"
           /\ effects' = Append(effects, issued)
           /\ issued' = IF <<mesh, FALSE, "null">> # <<latticeGaugeMesh, isLoading, error>>
                        THEN [issued EXCEPT !.materialProps = @ + 1]
                        ELSE issued
    /\ UNCHANGED <<pc, params, standard, profile, validationResult,
                   latticeType, latticeParams, reduction, cursor, primitives, previous,
                   gaugeGeometry, included, combinedMesh, resultMesh, thrown, failedOps>>

CanvasNext ==
    \/ CanvasRender
    \/ CanvasRunEffect

SpecCanvas == CanvasInit /\ [][CanvasNext]_vars

\* C25: the lattice solid is rebuilt only when a geometry-affecting parameter
\* changes: after a change the effect calls createLatticeGaugeSection once and
\* not again until the next change, so no two consecutive runs of the effect
\* build the mesh for the same parameters.
C25_RebuiltOncePerChange ==
    \A k \in 1..(Len(effects) - 1) :
        (/\ effects[k].profile = effects[k + 1].profile
         /\ effects[k].material = effects[k + 1].material) =>
            effects[k].profile.latticeType = "none"


\* C27: the object createLatticeGaugeSection returns is the root of an acyclic
\* scene graph: following the children links from the returned mesh never
\* reaches the mesh itself again.
C27_SceneGraphAcyclic ==
    Left =>
        \A i \in 1..Len(resultMesh.children) :
            \A j \in 1..Len(resultMesh.children[i].children) :
                resultMesh.children[i].children[j] # [object |-> "gaugeMesh"]


(***************************************************************************)
(* Claims about the standard change and the initial state of the designer  *)
(***************************************************************************)

\* C28: immediately after the designer handles a change to a standard s,
\* whatever was edited before, every one of the 13 fields of params equals the
\* field of getStandardTemplate(s), material and lattice settings included,
\* and validateSpecimen(params, s) is valid.
C28_StandardChangeAppliesTemplate ==
    [][handleStandardChange =>
          /\ params' = getStandardTemplate(standard', "circular")
          /\ Cardinality(DOMAIN params') = 13
          /\ validationResult'.valid
          /\ validateSpecimen("circular", params', standard').valid]_vars

\* the standard was changed to E8 and the params are its template, with the
\* material and the lattice type of the template
C28_Witness ==
    /\ standard = "E8"
    /\ params = getStandardTemplate("E8", "circular")
    /\ params.material = "steel"
    /\ params.latticeType = "none"
    /\ validationResult.valid

\* C29: in the initial state of the designer, standard E606 with the built-in
\* default params, validateSpecimen returns valid = true.
C29_InitialStateValid ==
    (standard = "E606" /\ params = DesignerDefaults) => validationResult.valid

=============================================================================
